---- MODULE Spec2Model ----
(***************************************************************************)
(* Verification model of the meta_genie literature-screening pipeline:     *)
(*   - rule_based_filter.py      (keyword matcher, rule stage)             *)
(*   - llm_secondary_filter.py   (LLM second pass, checkpointing)          *)
(*   - pipeline_hybrid_filter.py (rule stage + LLM stage driver)           *)
(*   - streamlit_keyword_review.py (human review session)                  *)
(*                                                                         *)
(* Texts are TLA+ strings; a character is a string of length one.          *)
(***************************************************************************)
EXTENDS Integers, Sequences, FiniteSets, TLC

VARIABLES
    \* ---- rule matcher harness (evaluate_single_paper) ----
    ev_pc,          \* "idle" | "ready" | "done"
    ev_title,       \* title handed to evaluate_single_paper
    ev_abstract,    \* abstract handed to evaluate_single_paper
    ev_found,       \* the three matched-term lists computed inside the call
    ev_out,         \* the dict returned by evaluate_single_paper
    \* ---- one call of process_single_article, step by step ----
    art_pc,         \* "idle" | "try" | "except" | "returned" | "raised"
    art_resp,       \* what the collaborator does during the call
    art_trace,      \* history: the attempts made, in order
    art_ret,        \* the value returned
    \* ---- pipeline (rule stage, LLM stage, files) ----
    pc,             \* "idle" | "loop" | "written" | "returned" | "crashed" | "aborted"
    clock,          \* wall clock in seconds (datetime.now())
    entry,          \* how the current LLM-stage call was made: "pipeline" | "direct"
    input_df,       \* df read from input_file by process_exclude_papers
    output_file,    \* output_file argument of the current call
    interval,       \* checkpoint_interval argument of the current call
    idx,            \* loop variable of process_exclude_papers
    results,        \* the list `results`
    returned,       \* the table process_exclude_papers returned (<<>> before it returns)
    checkpoints,    \* file system: output file name -> its .checkpoint file
    outputs,        \* file system: the output files written so far
    llm_log,        \* history: the rule verdicts of the rows handed to the collaborator
    last_call,      \* history: how the last loop iteration ended ("" | "missing" | "ok" | "failed")
    hist,           \* history: the crash before this call and where this call started
    \* ---- review session (streamlit session_state) ----
    rv_pc,          \* "idle" | "loaded"
    df,             \* st.session_state.df
    current_idx,    \* st.session_state.current_idx
    selected_keywords, \* st.session_state.selected_keywords
    reviewer_name,  \* st.session_state.reviewer_name
    changes_made,   \* st.session_state.changes_made
    status_filter,  \* st.session_state.status_filter (the selectbox "상태 필터")
    file_name,      \* st.session_state.file_name
    last_op,        \* history: the last review operation and the row it acted on
    \* ---- a single call of a function of the pipeline on a given argument ----
    call_pc,        \* "idle" | "ready" | the name of the function that returned
    call_arg,       \* the argument of the call
    call_ret        \* what the call returned or raised

ev_vars == <<ev_pc, ev_title, ev_abstract, ev_found, ev_out>>
art_vars == <<art_pc, art_resp, art_trace, art_ret>>
pl_vars == <<pc, clock, entry, input_df, output_file, interval, idx, results,
             returned, checkpoints, outputs, llm_log, last_call, hist>>
rv_vars == <<rv_pc, df, current_idx, selected_keywords, reviewer_name, changes_made,
             status_filter, file_name, last_op>>
call_vars == <<call_pc, call_arg, call_ret>>
vars == <<ev_vars, art_vars, pl_vars, rv_vars, call_vars>>

----------------------------------------------------------------------------
(* Characters and Python string primitives                                 *)

UpperCase == "ABCDEFGHIJKLMNOPQRSTUVWXYZ"
LowerCase == "abcdefghijklmnopqrstuvwxyz"
Digits == "0123456789"
\* the characters of the model's texts in code-point order (Python compares
\* strings by code point)
CodeOrder == "\t\n !*,-." \o Digits \o "?" \o UpperCase \o "_" \o LowerCase

Char(s, i) == SubSeq(s, i, i)

CharsOf(s) == {Char(s, i) : i \in 1..Len(s)}

IndexOf(c, s) == IF \E i \in 1..Len(s) : Char(s, i) = c
                 THEN CHOOSE i \in 1..Len(s) : Char(s, i) = c
                 ELSE 0

\* ord(c), as a rank among the characters of the model
Ord(c) == IndexOf(c, CodeOrder)

\* regex \w (letters, digits, underscore) and \s
WordChars == CharsOf(UpperCase) \cup CharsOf(LowerCase) \cup CharsOf(Digits) \cup {"_"}
IsWordChar(c) == c \in WordChars
IsSpaceChar(c) == c \in {" ", "\t", "\n"}

LowerChar(c) == IF IndexOf(c, UpperCase) > 0 THEN Char(LowerCase, IndexOf(c, UpperCase)) ELSE c

\* str.lower()
RECURSIVE lower(_)
lower(s) ==
    IF Len(s) = 0 THEN ""
    ELSE IF Len(s) = 1 THEN LowerChar(s)
    ELSE LET h == Len(s) \div 2 IN lower(SubSeq(s, 1, h)) \o lower(SubSeq(s, h + 1, Len(s)))

\* needle in hay
Contains(hay, needle) ==
    \E i \in 1..(Len(hay) - Len(needle) + 1) : SubSeq(hay, i, i + Len(needle) - 1) = needle

\* str.strip()
RECURSIVE lstrip(_)
lstrip(s) == IF Len(s) > 0 /\ IsSpaceChar(Char(s, 1)) THEN lstrip(SubSeq(s, 2, Len(s))) ELSE s
RECURSIVE rstrip(_)
rstrip(s) == IF Len(s) > 0 /\ IsSpaceChar(Char(s, Len(s))) THEN rstrip(SubSeq(s, 1, Len(s) - 1)) ELSE s
strip(s) == rstrip(lstrip(s))

\* len(keyword.split()): the number of maximal runs of non-whitespace
NumTokens(s) ==
    Cardinality({i \in 1..Len(s) : /\ ~IsSpaceChar(Char(s, i))
                                   /\ (i = 1 \/ IsSpaceChar(Char(s, i - 1)))})

\* sep.join(list)
RECURSIVE join(_, _)
join(sep, list) ==
    IF Len(list) = 0 THEN ""
    ELSE IF Len(list) = 1 THEN list[1]
    ELSE list[1] \o sep \o join(sep, Tail(list))

\* re.split(r'[.!?]+', text)
IsSentenceEnd(c) == c \in {".", "!", "?"}
EndAt(text, p) == p >= 1 /\ p <= Len(text) /\ IsSentenceEnd(Char(text, p))
\* where a piece starts: at the head of the text and after every run of delimiters
PieceStarts(text) == {1} \cup {p \in 2..(Len(text) + 1) : EndAt(text, p - 1) /\ ~EndAt(text, p)}
\* a piece runs up to the next delimiter (or the end of the text)
PieceAt(text, p) ==
    LET e == CHOOSE q \in p..(Len(text) + 1) :
                 /\ (q = Len(text) + 1 \/ EndAt(text, q))
                 /\ \A r \in p..(q - 1) : ~EndAt(text, r)
    IN SubSeq(text, p, e - 1)
RECURSIVE Ascending(_)
Ascending(S) == IF S = {} THEN <<>>
                ELSE LET m == CHOOSE x \in S : \A y \in S : x <= y
                     IN <<m>> \o Ascending(S \ {m})
split_sentences(text) ==
    LET starts == Ascending(PieceStarts(text))
    IN [i \in 1..Len(starts) |-> PieceAt(text, starts[i])]

----------------------------------------------------------------------------
(* A small backtracking matcher for the regular expressions the code       *)
(* builds: literals, \b, \w* and \s+ .  Positions are 1-based; a match     *)
(* of atoms starting at pos returns the position after its last character  *)
(* (0 when there is no match).                                             *)

Lit(s) == [t |-> "lit", s |-> s]
WordBoundary == [t |-> "b", s |-> ""]
WordStar == [t |-> "w*", s |-> ""]
SpacePlus == [t |-> "s+", s |-> ""]

WordAt(text, p) == p >= 1 /\ p <= Len(text) /\ IsWordChar(Char(text, p))

\* \b at pos: exactly one of the characters before and at pos is a word character
IsBoundary(text, pos) == WordAt(text, pos - 1) # WordAt(text, pos)

RECURSIVE RunLen(_, _, _)
RunLen(text, pos, space) ==
    IF pos <= Len(text) /\ (IF space THEN IsSpaceChar(Char(text, pos)) ELSE IsWordChar(Char(text, pos)))
    THEN 1 + RunLen(text, pos + 1, space)
    ELSE 0

RECURSIVE MatchFrom(_, _, _, _, _)
RECURSIVE Greedy(_, _, _, _, _, _, _)
Greedy(atoms, k, text, pos, n, least, icase) ==
    IF n < least THEN 0
    ELSE LET e == MatchFrom(atoms, k + 1, text, pos + n, icase)
         IN IF e # 0 THEN e ELSE Greedy(atoms, k, text, pos, n - 1, least, icase)
MatchFrom(atoms, k, text, pos, icase) ==
    IF k > Len(atoms) THEN pos
    ELSE LET a == atoms[k] IN
         CASE a.t = "lit" ->
                LET sub == SubSeq(text, pos, pos + Len(a.s) - 1)
                    same == IF icase THEN lower(sub) = lower(a.s) ELSE sub = a.s
                IN IF pos + Len(a.s) - 1 <= Len(text) /\ same
                   THEN MatchFrom(atoms, k + 1, text, pos + Len(a.s), icase)
                   ELSE 0
           [] a.t = "b" ->
                IF IsBoundary(text, pos) THEN MatchFrom(atoms, k + 1, text, pos, icase) ELSE 0
           [] a.t = "w*" -> Greedy(atoms, k, text, pos, RunLen(text, pos, FALSE), 0, icase)
           [] a.t = "s+" -> Greedy(atoms, k, text, pos, RunLen(text, pos, TRUE), 1, icase)

\* re.search(pattern, text): the leftmost match as <<start, end>> (end exclusive), or <<0, 0>>
SearchFrom(atoms, text, pos, icase) ==
    LET hits == {p \in pos..(Len(text) + 1) : MatchFrom(atoms, 1, text, p, icase) # 0}
    IN IF hits = {} THEN <<0, 0>>
       ELSE LET first == CHOOSE p \in hits : \A q \in hits : p <= q
            IN <<first, MatchFrom(atoms, 1, text, first, icase)>>
re_search(atoms, text, icase) == SearchFrom(atoms, text, 1, icase)

\* re.finditer(pattern, text): the non-overlapping matches, left to right
RECURSIVE FindIterFrom(_, _, _, _)
FindIterFrom(atoms, text, pos, icase) ==
    LET m == SearchFrom(atoms, text, pos, icase)
    IN IF m[1] = 0 THEN <<>>
       ELSE <<m>> \o FindIterFrom(atoms, text, IF m[2] > m[1] THEN m[2] ELSE m[2] + 1, icase)
re_finditer(atoms, text, icase) == FindIterFrom(atoms, text, 1, icase)

----------------------------------------------------------------------------
(* rule_based_filter.py: RuleBasedKeywordFilter                            *)

depression_keywords == <<"depression", "depressive symptoms", "depressive disorder">>

mobile_keywords ==
    <<"mobile application", "smartphone application", "mobile", "smartphone", "iphone",
      "android", "app", "digital", "digital therapeutic", "digital therapeutics", "mhealth">>

behavioral_base_keywords == <<"behavioral activation", "behavioural activation">>

\* r"\bactivity schedul\w*", r"\bbehavio\w*\s+interven\w*", r"\bbehavio\w*\s+therap\w*"
behavioral_patterns ==
    << <<WordBoundary, Lit("activity schedul"), WordStar>>,
       <<WordBoundary, Lit("behavio"), WordStar, SpacePlus, Lit("interven"), WordStar>>,
       <<WordBoundary, Lit("behavio"), WordStar, SpacePlus, Lit("therap"), WordStar>> >>

\* the first sentence in which the keyword occurs, stripped (no entry when none does)
RECURSIVE FirstSentence(_, _, _, _)
FirstSentence(sentences, i, keyword_lower, single) ==
    IF i > Len(sentences) THEN <<>>
    ELSE LET sl == lower(sentences[i])
             hit == IF single
                    THEN re_search(<<WordBoundary, Lit(keyword_lower), WordBoundary>>, sl, FALSE)[1] # 0
                    ELSE Contains(sl, keyword_lower)
         IN IF hit THEN <<strip(sentences[i])>>
            ELSE FirstSentence(sentences, i + 1, keyword_lower, single)

\* the keyword test if single words were searched as plain substrings too
KeywordHit_substring(text_lower, keyword) == Contains(text_lower, lower(keyword))

\* one pass of the `for keyword in keywords` loop: what it appends
KeywordHit(text_lower, keyword) ==
    LET keyword_lower == lower(keyword)
    IN IF NumTokens(keyword) = 1
       THEN re_search(<<WordBoundary, Lit(keyword_lower), WordBoundary>>, text_lower, FALSE)[1] # 0
       ELSE Contains(text_lower, keyword_lower)

RECURSIVE FindKeywordsLoop(_, _, _, _)
FindKeywordsLoop(text_lower, sentences, keywords, i) ==
    IF i > Len(keywords) THEN [kw |-> <<>>, sent |-> <<>>]
    ELSE LET rest == FindKeywordsLoop(text_lower, sentences, keywords, i + 1)
         IN IF KeywordHit(text_lower, keywords[i])
            THEN [kw |-> <<keywords[i]>> \o rest.kw,
                  sent |-> FirstSentence(sentences, 1, lower(keywords[i]),
                                         NumTokens(keywords[i]) = 1) \o rest.sent]
            ELSE rest

\* find_keywords_in_text(text, keywords) -> (found_keywords, found_sentences)
find_keywords_in_text(text, keywords) ==
    IF text = "" THEN [kw |-> <<>>, sent |-> <<>>]
    ELSE FindKeywordsLoop(lower(text), split_sentences(text), keywords, 1)

\* [k.lower() for k in found_keywords]
LowerAll(list) == {lower(list[i]) : i \in 1..Len(list)}

\* the sentence loop of the wildcard branch: matched_text in sentence.lower()
RECURSIVE FirstSentenceWith(_, _, _)
FirstSentenceWith(sentences, i, matched_text) ==
    IF i > Len(sentences) THEN <<>>
    ELSE IF Contains(lower(sentences[i]), matched_text) THEN <<strip(sentences[i])>>
    ELSE FirstSentenceWith(sentences, i + 1, matched_text)

\* the text a wildcard match is recorded as: match.group(0) of a match on text_lower
matched_text_of(text, text_lower, m) == SubSeq(text_lower, m[1], m[2] - 1)

\* `for match in matches`: appends every match not yet among the found keywords
RECURSIVE WildcardMatches(_, _, _, _, _, _)
WildcardMatches(text, text_lower, sentences, matches, j, acc) ==
    IF j > Len(matches) THEN acc
    ELSE LET matched_text == matched_text_of(text, text_lower, matches[j])
             next == IF matched_text \notin LowerAll(acc.kw)
                     THEN [kw |-> Append(acc.kw, matched_text),
                           sent |-> acc.sent \o FirstSentenceWith(sentences, 1, matched_text)]
                     ELSE acc
         IN WildcardMatches(text, text_lower, sentences, matches, j + 1, next)

\* `for pattern in self.behavioral_patterns`
RECURSIVE WildcardLoop(_, _, _, _, _)
WildcardLoop(text, text_lower, sentences, p, acc) ==
    IF p > Len(behavioral_patterns) THEN acc
    ELSE WildcardLoop(text, text_lower, sentences, p + 1,
                      WildcardMatches(text, text_lower, sentences,
                                      re_finditer(behavioral_patterns[p], text_lower, TRUE), 1, acc))

\* find_behavioral_keywords_in_text(text) -> (found_keywords, found_sentences)
find_behavioral_keywords_in_text(text) ==
    IF text = "" THEN [kw |-> <<>>, sent |-> <<>>]
    ELSE WildcardLoop(text, lower(text), split_sentences(text), 1,
                      find_keywords_in_text(text, behavioral_base_keywords))

\* full_text = f"{title} {abstract}" and the three searches of evaluate_single_paper
full_text_of(title, abstract) == title \o " " \o abstract

\* depression_found, mobile_found, behavioral_found (lines 129-131)
FoundIn(full_text) ==
    [depression |-> find_keywords_in_text(full_text, depression_keywords).kw,
     mobile     |-> find_keywords_in_text(full_text, mobile_keywords).kw,
     behavioral |-> find_behavioral_keywords_in_text(full_text).kw]

\* the three lists found in f"{title} {abstract}"
FoundLists(title, abstract) == FoundIn(full_text_of(title, abstract))

\* a plausible slip: `or` in place of `and` in the inclusion rule
decide_result_any(found) ==
    IF Len(found.depression) > 0 \/ Len(found.mobile) > 0 \/ Len(found.behavioral) > 0
    THEN "include" ELSE "exclude"

\* result = "include" if (has_depression and has_mobile and has_behavioral) else "exclude"
decide_result(found) ==
    IF Len(found.depression) > 0 /\ Len(found.mobile) > 0 /\ Len(found.behavioral) > 0
    THEN "include" ELSE "exclude"

\* the decision and the dict returned for the three lists found (lines 133-159)
evaluate_from(found) ==
    [depression_keywords |-> join(", ", found.depression),
     mobile_keywords     |-> join(", ", found.mobile),
     behavioral_keywords |-> join(", ", found.behavioral),
     result              |-> decide_result(found)]

\* evaluate_single_paper(title, abstract) -> dict
evaluate_single_paper(title, abstract) == evaluate_from(FoundLists(title, abstract))

----------------------------------------------------------------------------
(* Tables, CSV files and pandas conversions                                *)

\* a missing cell (float NaN) and a column the table does not have
NaN == "<NaN>"
Absent == "<absent>"

\* str(value): a missing cell prints as 'nan'
pystr(v) == IF v = NaN THEN "nan" ELSE v

\* DataFrame.to_csv followed by pd.read_csv: empty cells and the default NA spellings come
\* back as NaN, every other string as written
NaSpellings == {"", "nan", "NaN", "NA", "N/A", "n/a", "NULL", "null", "None", "<NA>", "#N/A"}
csv_cell(v) == IF v = NaN \/ v \in NaSpellings THEN NaN ELSE v

----------------------------------------------------------------------------
(* rule_based_filter.py: process_dataframe (the rule stage)                *)

\* the cleaned title/abstract: str(row.get(..)) with 'nan' turned into ''
clean_text(v) == IF pystr(v) = "nan" THEN "" ELSE pystr(v)

\* the result dict of a row that has a title or an abstract (lines 190-204)
matched_row(row, title, abstract, rule_result) ==
    [DOI |-> row.DOI, Title |-> title, Abstract |-> abstract,
     depression_keywords |-> rule_result.depression_keywords,
     mobile_keywords |-> rule_result.mobile_keywords,
     behavioral_keywords |-> rule_result.behavioral_keywords,
     result |-> rule_result.result]

\* the loop body if one missing text were enough to skip the matcher
rule_row_of_either(row, title, abstract) ==
    IF title = "" \/ abstract = ""
    THEN [DOI |-> row.DOI, Title |-> title, Abstract |-> abstract,
          depression_keywords |-> "", mobile_keywords |-> "", behavioral_keywords |-> "",
          result |-> "exclude"]
    ELSE matched_row(row, title, abstract, evaluate_single_paper(title, abstract))

\* the loop body for the cleaned title and abstract (lines 174-204)
rule_row_of(row, title, abstract) ==
    IF title = "" /\ abstract = ""
    THEN [DOI |-> row.DOI, Title |-> title, Abstract |-> abstract,
          depression_keywords |-> "", mobile_keywords |-> "", behavioral_keywords |-> "",
          result |-> "exclude"]
    ELSE matched_row(row, title, abstract, evaluate_single_paper(title, abstract))

\* one pass of `for idx, row in df.iterrows()`
rule_row(row) == rule_row_of(row, clean_text(row.Title), clean_text(row.Abstract))

\* rows of data/meta_article_data.csv as pd.read_csv returns them
PaperKinds ==
    {[DOI |-> "10.1/inc", Title |-> "Mobile App for Depression",
      Abstract |-> "Behavioral activation therapy."],
     [DOI |-> "10.1/exc", Title |-> "A Study of Exercise", Abstract |-> "Exercise improves mood."],
     [DOI |-> "10.1/noabs", Title |-> "Depression app", Abstract |-> NaN]}

\* the loop body applied to each kind of row (evaluated once)
RuleRows == [p \in PaperKinds |-> rule_row(p)]

\* process_dataframe(df) -> DataFrame
process_dataframe(table) == [i \in 1..Len(table) |-> RuleRows[table[i]]]

\* rule_results.to_csv(rule_output) and pd.read_csv(input_file) of it
read_rule_file(table) ==
    [i \in 1..Len(table) |->
        [DOI |-> csv_cell(table[i].DOI), Title |-> csv_cell(table[i].Title),
         Abstract |-> csv_cell(table[i].Abstract),
         depression_keywords |-> csv_cell(table[i].depression_keywords),
         mobile_keywords |-> csv_cell(table[i].mobile_keywords),
         behavioral_keywords |-> csv_cell(table[i].behavioral_keywords),
         result |-> csv_cell(table[i].result)]]

----------------------------------------------------------------------------
(* llm_secondary_filter.py: the collaborator and process_single_article    *)

\* a key a dict does not have
Missing == "<missing>"

\* a dict with the keys the code reads; size counts all its keys (0: the empty dict)
EmptyDict ==
    [depression_keywords |-> Missing, mobile_keywords |-> Missing,
     behavioral_keywords |-> Missing, result |-> Missing, reason |-> Missing, size |-> 0]

\* Python values process_single_article handles: None, a dict, any other JSON value
PyNone == [kind |-> "none", d |-> EmptyDict, truthy |-> FALSE]
PyDict(d) == [kind |-> "dict", d |-> d, truthy |-> d.size > 0]
PyOther(t) == [kind |-> "other", d |-> EmptyDict, truthy |-> t]
\* not a value: the call did not return, an exception left it
PyRaised == [kind |-> "raised", d |-> EmptyDict, truthy |-> FALSE]

\* dict.get(key, default)
get(d, key, default) == IF d[key] = Missing THEN default ELSE d[key]

(* What the collaborator does for one article:                             *)
(*   structured : "ok"    the chain returned an LLMKeywordResult (`dict`)  *)
(*                "raise" the chain raised (call, timeout or output parser)*)
(*   retry      : "raise" the direct llm.invoke of the retry raised        *)
(*                "text"  it returned a response text                      *)
(*   loads      : what json.loads makes of the JSON block of that text:    *)
(*                "error" (JSONDecodeError) or the value `json`            *)
Response(structured, dict, retry, loads, json) ==
    [structured |-> structured, dict |-> dict, retry |-> retry, loads |-> loads, json |-> json]

\* _parse_fallback_response(response_text): the parsed value, None on a decode error
parse_fallback_response(resp) == IF resp.loads = "error" THEN PyNone ELSE resp.json

\* the first attempt (lines 144-165): the value returned, or "raised"
structured_attempt(resp) ==
    IF resp.structured = "ok" THEN [raised |-> FALSE, value |-> PyDict(resp.dict)]
    ELSE [raised |-> TRUE, value |-> PyNone]

\* the statements of the inner try (lines 170-186): they return, raise, or fall through
retry_body(resp) ==
    IF resp.retry = "raise" THEN [outcome |-> "raise", value |-> PyNone]
    ELSE LET result_dict == parse_fallback_response(resp)
         IN IF result_dict.truthy
            THEN \* result_dict.get('result', ..) raises AttributeError on a non-dict
                 IF result_dict.kind = "dict" THEN [outcome |-> "return", value |-> result_dict]
                 ELSE [outcome |-> "raise", value |-> PyNone]
            ELSE [outcome |-> "fall", value |-> PyNone]

\* a slip: the retry has no `except Exception as e2`
fallback_attempt_uncaught(resp) ==
    LET body == retry_body(resp)
    IN IF body.outcome = "return" THEN body.value
       ELSE IF body.outcome = "raise" THEN PyRaised ELSE PyNone

\* the retry in the except branch (lines 167-192): `except Exception as e2` catches what
\* the inner try raises, and `return None` follows
fallback_attempt(resp) ==
    LET body == retry_body(resp)
    IN IF body.outcome = "return" THEN body.value ELSE PyNone

\* the collaborator fails: the call throws, or neither parse yields a usable result
CollaboratorFailed(resp) ==
    /\ resp.structured = "raise"
    /\ \/ resp.retry = "raise"
       \/ resp.loads = "error"
       \/ ~(resp.json.kind = "dict" /\ resp.json.d.size > 0)

\* process_single_article(...) -> Optional[Dict]
process_single_article(resp) ==
    LET first == structured_attempt(resp)
    IN IF ~first.raised THEN first.value ELSE fallback_attempt(resp)

----------------------------------------------------------------------------
(* llm_secondary_filter.py: process_exclude_papers                         *)

\* llm_reason texts: '제목 또는 초록 누락', 'LLM 처리 실패', '이미 규칙 기반에서 포함됨'
ReasonMissing == "title or abstract missing"
ReasonFailed == "LLM processing failed"
ReasonAlreadyIncluded == "already included by rules"

\* df[df['result'] == 'exclude'] and df[df['result'] == 'include']
exclude_df(table) == SelectSeq(table, LAMBDA r : r.result = "exclude")
include_df(table) == SelectSeq(table, LAMBDA r : r.result = "include")

\* not title or not abstract or title == 'nan' or abstract == 'nan'
text_missing(row) ==
    LET title == pystr(row.Title)
        abstract == pystr(row.Abstract)
    IN title = "" \/ abstract = "" \/ title = "nan" \/ abstract = "nan"

\* the dict appended to `results` for one row of exclude_df
ResultDict(row, kw, llm_result, llm_reason, final_result) ==
    [DOI |-> row.DOI, Title |-> pystr(row.Title), Abstract |-> pystr(row.Abstract),
     depression_keywords |-> Absent, mobile_keywords |-> Absent,
     behavioral_keywords |-> Absent, result |-> Absent,
     rule_depression_keywords |-> pystr(row.depression_keywords),
     rule_mobile_keywords |-> pystr(row.mobile_keywords),
     rule_behavioral_keywords |-> pystr(row.behavioral_keywords),
     rule_result |-> "exclude",
     llm_depression_keywords |-> kw[1], llm_mobile_keywords |-> kw[2],
     llm_behavioral_keywords |-> kw[3],
     llm_result |-> llm_result, llm_reason |-> llm_reason, final_result |-> final_result]

\* a slip: a failed collaborator call leaves the verdict open
failed_result_open(row) == ResultDict(row, <<"", "", "">>, "", "", "")

\* the else branch of `if llm_result:` (lines 317-338)
failed_result(row) == ResultDict(row, <<"", "", "">>, "exclude", ReasonFailed, "exclude")

\* the branch for a missing title or abstract (lines 264-286)
missing_result(row) == ResultDict(row, <<"", "", "">>, "exclude", ReasonMissing, "exclude")

\* the branch `if llm_result:` (lines 294-316)
merged_result(row, d) ==
    ResultDict(row,
               <<get(d, "depression_keywords", ""), get(d, "mobile_keywords", ""),
                 get(d, "behavioral_keywords", "")>>,
               get(d, "result", "exclude"), get(d, "reason", ""), get(d, "result", "exclude"))

\* a row of include_with_llm (lines 352-365)
include_with_llm(row) ==
    [DOI |-> row.DOI, Title |-> row.Title, Abstract |-> row.Abstract,
     depression_keywords |-> row.depression_keywords, mobile_keywords |-> row.mobile_keywords,
     behavioral_keywords |-> row.behavioral_keywords, result |-> row.result,
     rule_depression_keywords |-> row.depression_keywords,
     rule_mobile_keywords |-> row.mobile_keywords,
     rule_behavioral_keywords |-> row.behavioral_keywords,
     rule_result |-> row.result,
     llm_depression_keywords |-> "", llm_mobile_keywords |-> "",
     llm_behavioral_keywords |-> "",
     llm_result |-> "not_processed", llm_reason |-> ReasonAlreadyIncluded,
     final_result |-> "include"]

\* a row of `results` as a row of pd.concat([include_with_llm, exclude_results_df]):
\* a column it lacks is filled with NaN
concat_row(r) ==
    [r EXCEPT !.depression_keywords = NaN, !.mobile_keywords = NaN,
              !.behavioral_keywords = NaN, !.result = NaN]

\* final_df (line 368)
final_df(table, res) ==
    LET inc == include_df(table)
    IN [i \in 1..Len(inc) |-> include_with_llm(inc[i])] \o [i \in 1..Len(res) |-> concat_row(res[i])]

\* the table `return df` of line 235 hands back: the rule-stage columns alone
passthrough_row(row) ==
    [DOI |-> row.DOI, Title |-> row.Title, Abstract |-> row.Abstract,
     depression_keywords |-> row.depression_keywords, mobile_keywords |-> row.mobile_keywords,
     behavioral_keywords |-> row.behavioral_keywords, result |-> row.result,
     rule_depression_keywords |-> Absent, rule_mobile_keywords |-> Absent,
     rule_behavioral_keywords |-> Absent, rule_result |-> Absent,
     llm_depression_keywords |-> Absent, llm_mobile_keywords |-> Absent,
     llm_behavioral_keywords |-> Absent, llm_result |-> Absent, llm_reason |-> Absent,
     final_result |-> Absent]
passthrough_df(table) == [i \in 1..Len(table) |-> passthrough_row(table[i])]

\* checkpoint_df.to_csv(checkpoint_path) and pd.read_csv of it, to_dict('records')
read_checkpoint_row(r) ==
    [DOI |-> csv_cell(r.DOI), Title |-> csv_cell(r.Title), Abstract |-> csv_cell(r.Abstract),
     depression_keywords |-> Absent, mobile_keywords |-> Absent,
     behavioral_keywords |-> Absent, result |-> Absent,
     rule_depression_keywords |-> csv_cell(r.rule_depression_keywords),
     rule_mobile_keywords |-> csv_cell(r.rule_mobile_keywords),
     rule_behavioral_keywords |-> csv_cell(r.rule_behavioral_keywords),
     rule_result |-> csv_cell(r.rule_result),
     llm_depression_keywords |-> csv_cell(r.llm_depression_keywords),
     llm_mobile_keywords |-> csv_cell(r.llm_mobile_keywords),
     llm_behavioral_keywords |-> csv_cell(r.llm_behavioral_keywords),
     llm_result |-> csv_cell(r.llm_result), llm_reason |-> csv_cell(r.llm_reason),
     final_result |-> csv_cell(r.final_result)]
read_checkpoint(rows) == [i \in 1..Len(rows) |-> read_checkpoint_row(rows[i])]

----------------------------------------------------------------------------
(* Values the parts of the model that are not running hold                  *)

NoValue == [none |-> TRUE]

EvIdle ==
    /\ ev_pc = "idle" /\ ev_title = "" /\ ev_abstract = ""
    /\ ev_found = NoValue /\ ev_out = NoValue

----------------------------------------------------------------------------
(* Harness for evaluate_single_paper: every (title, abstract) pair of the  *)
(* sets below is evaluated once.                                            *)

Titles ==
    {"", "Mobile App for Depression", "A Study of Exercise", "Apply now", "Depression",
     "Smartphone use", "Behavioral", "Behavio", "iPhone apps and Depressive Disorder"}

Abstracts ==
    {"", "A smartphone application for behavioral activation therapy in adults with depressive symptoms.",
     "Exercise improves mood.", "Activity scheduling helps! Behaviour   therapy works.",
     "activation of mHealth in depression", "therapy via digital therapeutics",
     "An Android app. Behavioural Activation? Yes", "Behaviour\ninterventions for depression"}

\* a caller invokes evaluate_single_paper(title, abstract)
EvaluatePaper ==
    /\ ev_pc = "ready"
    /\ ev_found' = FoundLists(ev_title, ev_abstract)
    /\ ev_out' = evaluate_single_paper(ev_title, ev_abstract)
    /\ ev_pc' = "done"
    /\ UNCHANGED <<ev_title, ev_abstract, art_vars, pl_vars, rv_vars, call_vars>>

----------------------------------------------------------------------------
(* The pipeline: run_pipeline, process_exclude_papers, crashes, the clock  *)

\* rows a source table may hold and the checkpoint interval run_pipeline runs with
\* (the default of process_exclude_papers, scaled to the size of the tables)
MaxRows == 2
DefaultInterval == 2
MaxClock == 2
\* rows of a table the stage is called on after a crash, when it is not the crashed table
OtherRows == 1

SourceTables == UNION {[1..n -> PaperKinds] : n \in 0..MaxRows}

FileNames == 1..MaxClock

FullDict(result, reason) ==
    [depression_keywords |-> "low mood", mobile_keywords |-> "phone",
     behavioral_keywords |-> "activation", result |-> result, reason |-> reason, size |-> 8]

\* what the collaborator may do for a row of the batch
Responses ==
    {Response("ok", FullDict("include", "relevant"), "raise", "error", PyNone),
     Response("ok", [FullDict("exclude", "off topic") EXCEPT !.depression_keywords = ""],
              "raise", "error", PyNone),
     Response("ok", FullDict("maybe", ""), "raise", "error", PyNone),
     Response("ok", [FullDict("include", "relevant") EXCEPT !.mobile_keywords = ""],
              "raise", "error", PyNone),
     Response("raise", EmptyDict, "text", "value", PyDict(FullDict("include", "relevant"))),
     Response("raise", EmptyDict, "text", "value",
              PyDict([FullDict(Missing, Missing) EXCEPT !.size = 3])),
     Response("raise", EmptyDict, "text", "value", PyDict(EmptyDict)),
     Response("raise", EmptyDict, "text", "value", PyOther(TRUE)),
     Response("raise", EmptyDict, "text", "error", PyNone),
     Response("raise", EmptyDict, "raise", "error", PyNone)}

NoFile == [exists |-> FALSE, readable |-> FALSE, rows |-> <<>>]
CheckpointFile(rows) == [exists |-> TRUE, readable |-> TRUE, rows |-> rows]
TornFile == [exists |-> TRUE, readable |-> FALSE, rows |-> <<>>]

NoCrash ==
    [crashes |-> 0, crashed |-> FALSE, torn |-> FALSE, via |-> "", out |-> 0, source |-> <<>>,
     ckpt |-> 0, done |-> 0, interval |-> 0, restart |-> FALSE, start |-> 0]

PlIdle ==
    /\ pc = "idle" /\ clock = 1 /\ entry = "" /\ input_df = <<>>
    /\ output_file = 0 /\ interval = 0 /\ idx = 0 /\ results = <<>> /\ returned = <<>>
    /\ checkpoints = [f \in FileNames |-> NoFile] /\ outputs = {}
    /\ llm_log = {} /\ last_call = "" /\ hist = NoCrash

\* lines 221-252 of process_exclude_papers: load, split, early return, checkpoint load;
\* `table` is the rule-stage file of the source table t as pd.read_csv returns it
StartCall(via, t, table, out, k) ==
    LET ck == checkpoints[out]
        loaded == IF ck.exists /\ ck.readable THEN read_checkpoint(ck.rows) ELSE <<>>
        restart == /\ hist.crashed /\ via = hist.via /\ t = hist.source
                   /\ (via = "pipeline" \/ out = hist.out)
    IN /\ entry' = via /\ input_df' = table /\ output_file' = out /\ interval' = k
       /\ llm_log' = {} /\ last_call' = ""
       /\ UNCHANGED <<clock, checkpoints, outputs>>
       /\ IF Len(exclude_df(table)) = 0
          THEN /\ pc' = "returned" /\ returned' = passthrough_df(table)
               /\ results' = <<>> /\ idx' = 0
               /\ hist' = [NoCrash EXCEPT !.crashes = hist.crashes, !.source = t]
          ELSE /\ pc' = "loop" /\ returned' = <<>>
               /\ results' = loaded /\ idx' = Len(loaded)
               /\ hist' = IF restart THEN [hist EXCEPT !.restart = TRUE, !.start = Len(loaded)]
                          ELSE [NoCrash EXCEPT !.crashes = hist.crashes, !.source = t,
                                               !.start = Len(loaded)]

\* the tables a call is made on: any table at first; after a crash the crashed table
\* again, or a small other one
CallTables ==
    IF hist.crashed
    THEN {t \in SourceTables : Len(t) <= OtherRows \/ t = hist.source}
    ELSE SourceTables

\* run_pipeline on the source table t: the rule stage, then the LLM stage on its output,
\* both files named by the timestamp
RunPipeline(t) ==
    /\ pc \in {"idle", "crashed"}
    /\ t \in CallTables
    /\ \E table \in {read_rule_file(process_dataframe(t))} :
           StartCall("pipeline", t, table, clock, DefaultInterval)

\* process_exclude_papers called on a rule-stage result file: by main(), which names the
\* output file by the timestamp, or by a caller that passes the path of the crashed call
\* again. A call made after a crash keeps the checkpoint interval.
DirectCall(t, out, k) ==
    /\ pc \in {"idle", "crashed"}
    /\ t \in CallTables
    /\ out \in IF hist.crashed THEN {clock, hist.out} ELSE {clock}
    /\ hist.crashed => k = hist.interval
    /\ \E table \in {read_rule_file(process_dataframe(t))} :
           StartCall("direct", t, table, out, k)

\* `results.append(result)` and the checkpoint of lines 340-346
AppendResult(result) ==
    /\ results' = Append(results, result)
    /\ idx' = idx + 1
    /\ checkpoints' = IF (idx + 1) % interval = 0
                      THEN [checkpoints EXCEPT ![output_file] = CheckpointFile(results')]
                      ELSE checkpoints
    /\ UNCHANGED <<pc, clock, entry, input_df, output_file, interval, returned,
                   outputs, hist>>

\* a loop iteration for a row without title or abstract
ProcessMissingRecord ==
    /\ pc = "loop" /\ idx < Len(exclude_df(input_df))
    /\ LET row == exclude_df(input_df)[idx + 1]
       IN /\ text_missing(row)
          /\ AppendResult(missing_result(row))
          /\ llm_log' = llm_log /\ last_call' = "missing"

\* a loop iteration that hands the row to the collaborator
ProcessRecord(resp) ==
    /\ pc = "loop" /\ idx < Len(exclude_df(input_df))
    /\ LET row == exclude_df(input_df)[idx + 1]
           llm_result == process_single_article(resp)
       IN /\ ~text_missing(row)
          /\ llm_log' = llm_log \cup {row.result}
          /\ last_call' = IF CollaboratorFailed(resp) THEN "failed" ELSE "ok"
          /\ IF llm_result.kind = "raised" \/ (llm_result.truthy /\ llm_result.kind # "dict")
             THEN \* an exception of the call, or of llm_result.get, leaves the loop, which
                  \* has no try: process_exclude_papers raises
                  /\ pc' = "aborted"
                  /\ UNCHANGED <<clock, entry, input_df, output_file, interval, idx,
                                 results, returned, checkpoints, outputs, hist>>
             ELSE AppendResult(IF llm_result.truthy THEN merged_result(row, llm_result.d)
                               ELSE failed_result(row))

\* final_df.to_csv(output_file) (lines 348-371)
WriteFinal ==
    /\ pc = "loop" /\ idx >= Len(exclude_df(input_df))
    /\ outputs' = outputs \cup {output_file}
    /\ pc' = "written"
    /\ UNCHANGED <<clock, entry, input_df, output_file, interval, idx, results,
                   returned, checkpoints, llm_log, last_call, hist>>

\* os.remove(checkpoint_path) and `return final_df` (lines 373-392)
RemoveCheckpointAndReturn ==
    /\ pc = "written"
    /\ checkpoints' = [checkpoints EXCEPT ![output_file] = NoFile]
    /\ returned' = final_df(input_df, results)
    /\ pc' = "returned"
    /\ UNCHANGED <<clock, entry, input_df, output_file, interval, idx, results,
                   outputs, llm_log, last_call, hist>>

\* what a crash leaves: the files; the process state is gone
CrashWith(torn) ==
    /\ pc' = "crashed"
    /\ hist' = [crashes |-> hist.crashes + 1, crashed |-> TRUE, torn |-> torn, via |-> entry,
                out |-> output_file, source |-> hist.source,
                ckpt |-> IF checkpoints'[output_file].exists /\ checkpoints'[output_file].readable
                         THEN Len(checkpoints'[output_file].rows) ELSE 0,
                done |-> idx, interval |-> interval, restart |-> FALSE, start |-> 0]
    /\ idx' = 0 /\ results' = <<>> /\ returned' = <<>> /\ llm_log' = {} /\ last_call' = ""
    /\ entry' = "" /\ input_df' = <<>> /\ output_file' = 0 /\ interval' = 0
    /\ UNCHANGED <<clock, outputs>>

\* the process is killed between two statements of the batch
Crash ==
    /\ pc \in {"loop", "written"} /\ hist.crashes = 0
    /\ UNCHANGED checkpoints
    /\ CrashWith(FALSE)

\* the process is killed while to_csv overwrites the checkpoint: the file is left
\* unreadable or holds only the first n rows
CrashInCheckpointWrite(n) ==
    /\ pc = "loop" /\ hist.crashes = 0
    /\ idx > hist.start /\ idx % interval = 0
    /\ n \in 0..idx
    /\ checkpoints' = [checkpoints EXCEPT ![output_file] =
                          IF n = idx THEN TornFile ELSE CheckpointFile(SubSeq(results, 1, n))]
    /\ CrashWith(TRUE)

\* a second passes before the batch is started again
Tick ==
    /\ pc = "crashed" /\ clock < MaxClock
    /\ clock' = clock + 1
    /\ UNCHANGED <<pc, entry, input_df, output_file, interval, idx, results, returned,
                   checkpoints, outputs, llm_log, last_call, hist>>

----------------------------------------------------------------------------
(* One call of process_single_article, attempt by attempt                   *)

ArtIdle == art_pc = "idle" /\ art_resp = NoValue /\ art_trace = <<>> /\ art_ret = NoValue

\* the dicts an LLMKeywordResult turns into: every field is there
StructuredDicts ==
    {[FullDict(r, "because") EXCEPT !.depression_keywords = k] :
        r \in {"include", "exclude", "maybe"}, k \in {"", "low mood"}}

\* the values json.loads may return for the retry's response text
JsonValues ==
    {PyDict([FullDict(r, why) EXCEPT !.depression_keywords = k, !.mobile_keywords = m]) :
        r \in {"include", "exclude", "maybe", Missing}, why \in {"because", Missing},
        k \in {"low mood", Missing}, m \in {"phone", Missing}}
    \cup {PyDict(EmptyDict), PyNone, PyOther(TRUE), PyOther(FALSE)}

\* what the collaborator may do during one call
ArticleResponses ==
    {Response("ok", d, "raise", "error", PyNone) : d \in StructuredDicts}
    \cup {Response("raise", EmptyDict, "raise", "error", PyNone),
          Response("raise", EmptyDict, "text", "error", PyNone)}
    \cup {Response("raise", EmptyDict, "text", "value", v) : v \in JsonValues}

\* process_single_article is called
CallArticle(resp) ==
    /\ art_pc = "idle"
    /\ art_pc' = "try" /\ art_resp' = resp /\ art_trace' = <<>> /\ art_ret' = NoValue

\* the outer try: chain.invoke and result.dict()
StructuredAttempt ==
    /\ art_pc = "try"
    /\ art_trace' = Append(art_trace, "structured")
    /\ LET first == structured_attempt(art_resp)
       IN IF first.raised THEN art_pc' = "except" /\ art_ret' = art_ret
          ELSE art_pc' = "returned" /\ art_ret' = first.value
    /\ UNCHANGED art_resp

\* the except branch: the retry, and the `return None` after it
FallbackAttempt ==
    /\ art_pc = "except"
    /\ art_trace' = Append(art_trace, "raw")
    /\ LET value == fallback_attempt(art_resp)
       IN IF value.kind = "raised" THEN art_pc' = "raised" /\ art_ret' = art_ret
          ELSE art_pc' = "returned" /\ art_ret' = value
    /\ UNCHANGED art_resp

\* the caller takes the value; the next call may start
FinishArticle ==
    /\ art_pc \in {"returned", "raised"}
    /\ art_pc' = "idle" /\ art_resp' = NoValue /\ art_trace' = <<>> /\ art_ret' = NoValue

----------------------------------------------------------------------------
(* streamlit_keyword_review.py: the review session                          *)

MaxReviewRows == 2

\* a < b for Python strings: by code point, a proper prefix first
str_lt(a, b) ==
    \E i \in 1..(Len(b)) :
        /\ i <= Len(a) + 1
        /\ SubSeq(a, 1, i - 1) = SubSeq(b, 1, i - 1)
        /\ (i = Len(a) + 1 \/ Ord(Char(a, i)) < Ord(Char(b, i)))

\* a slip: the keywords are listed from the greatest down
RECURSIVE sorted_descending(_)
sorted_descending(S) ==
    IF S = {} THEN <<>>
    ELSE LET m == CHOOSE x \in S : \A y \in S \ {x} : str_lt(y, x)
         IN <<m>> \o sorted_descending(S \ {m})

\* sorted(set of str)
RECURSIVE sorted(_)
sorted(S) ==
    IF S = {} THEN <<>>
    ELSE LET m == CHOOSE x \in S : \A y \in S \ {x} : str_lt(x, y)
         IN <<m>> \o sorted(S \ {m})

\* the options of the three segmented controls (lines 960, 976, 992), which are the sets
\* load_current_paper_keywords selects (lines 342-363)
ReviewOptions ==
    [depression |-> {"depression", "depressive symptoms", "depressive disorder"},
     mobile |-> {"mobile application", "smartphone application", "mobile", "smartphone",
                 "iphone", "android", "app", "digital", "digital therapeutic", "mhealth"},
     behavioral |-> {"behavioral activation", "behavioural activation", "activity schedul*",
                     "behavio* interven*", "behavio* therap*"}]
Categories == {"depression", "mobile", "behavioral"}

\* st.session_state.selected_keywords as the script initialises it (line 148)
NoSelection == [depression |-> {}, mobile |-> {}, behavioral |-> {}]

\* load_current_paper_keywords()
load_current_paper_keywords == ReviewOptions

\* the selections the reviewer makes in a segmented control
SelectionChoices ==
    [depression |-> {{}, ReviewOptions.depression},
     mobile |-> {{}, {"smartphone", "mobile application", "app"}, ReviewOptions.mobile},
     behavioral |-> {{}, ReviewOptions.behavioral}]

\* the selection the INCLUDE button stores (lines 766-770)
IncludeSelection ==
    [depression |-> {"depression"}, mobile |-> {"mobile"},
     behavioral |-> {"behavioral activation"}]

\* ', '.join(sorted(...)) of the selections a session can hold (evaluated once)
JoinedSelection ==
    [c \in Categories |->
        [S \in SelectionChoices[c] \cup {ReviewOptions[c], IncludeSelection[c]} |->
            join(", ", sorted(S))]]

\* datetime.now().strftime('%Y-%m-%d %H:%M:%S')
Now == "2025-01-01 00:00:00"

\* the options of the status selectbox: "전체", "미완료", "완료"
StatusFilters == {"all", "incomplete", "done"}

\* the columns of a hybrid file that the rule stage, the LLM stage and the merge wrote
StageFieldNames ==
    {"result", "rule_result", "rule_depression_keywords", "rule_mobile_keywords",
     "rule_behavioral_keywords", "llm_result", "llm_depression_keywords",
     "llm_mobile_keywords", "llm_behavioral_keywords", "llm_reason", "final_result"}
StageFields(row) == [f \in StageFieldNames |-> row[f]]

\* a row of a hybrid file after process_loaded_df added the review columns:
\* row 1 was included by the rules, row 2 excluded by both stages, later rows rescued
ReviewRow(i) ==
    [Title |-> IF i = 1 THEN "Mobile App for Depression" ELSE "A Study of Exercise",
     result |-> IF i = 1 THEN "include" ELSE "exclude",
     rule_result |-> IF i = 1 THEN "include" ELSE "exclude",
     rule_depression_keywords |-> IF i = 1 THEN "depression" ELSE NaN,
     rule_mobile_keywords |-> IF i = 1 THEN "mobile, app" ELSE NaN,
     rule_behavioral_keywords |-> IF i = 1 THEN "behavioral activation" ELSE NaN,
     llm_result |-> IF i = 1 THEN "not_processed" ELSE IF i = 2 THEN "exclude" ELSE "include",
     llm_depression_keywords |-> IF i > 2 THEN "low mood" ELSE NaN,
     llm_mobile_keywords |-> IF i > 2 THEN "phone" ELSE NaN,
     llm_behavioral_keywords |-> IF i > 2 THEN "activity planning" ELSE NaN,
     llm_reason |-> IF i = 1 THEN ReasonAlreadyIncluded ELSE "relevant",
     final_result |-> IF i = 2 THEN "exclude" ELSE "include",
     human_depression_keywords |-> "", human_mobile_keywords |-> "",
     human_behavioral_keywords |-> "", human_result |-> "", reviewer_name |-> "",
     review_status |-> "incomplete", review_date |-> "None"]

RvIdle ==
    /\ rv_pc = "idle" /\ df = <<>> /\ current_idx = 0 /\ selected_keywords = NoSelection
    /\ reviewer_name = "" /\ changes_made = FALSE /\ status_filter = "all"
    /\ file_name = "None"
    /\ last_op = [op |-> "", idx |-> 0]

\* the load buttons (lines 409-417, 435-442)
LoadFile(n) ==
    /\ df' = [i \in 1..n |-> ReviewRow(i)]
    /\ current_idx' = 0
    /\ selected_keywords' = load_current_paper_keywords
    /\ rv_pc' = "loaded"
    /\ file_name' = "hybrid_results.csv"
    /\ last_op' = [op |-> "load", idx |-> 0]
    /\ UNCHANGED <<reviewer_name, changes_made, status_filter>>

\* the columns a table must have, the columns that make it a hybrid file, and the
\* review columns added when absent
required_columns ==
    {"Title", "Abstract", "depression_keywords", "mobile_keywords", "behavioral_keywords",
     "result"}
hybrid_columns == {"rule_result", "llm_result", "final_result"}
review_columns ==
    {"human_depression_keywords", "human_mobile_keywords", "human_behavioral_keywords",
     "human_result", "reviewer_name", "review_status", "review_date"}

NoTable == {"<None>"}

\* a plausible slip: the compatibility mapping applied to every file
process_loaded_df_mapped(columns) ==
    LET mapped == columns \cup {"depression_keywords", "mobile_keywords",
                                "behavioral_keywords", "result"}
    IN IF required_columns \ mapped # {} THEN NoTable ELSE mapped \cup review_columns

\* process_loaded_df(df), on the columns of the table: a hybrid file gets the keyword
\* columns and result it lacks (from their rule_ counterparts, or empty), then a table
\* without a required column gives None, and any other one gets the review columns
process_loaded_df(columns) ==
    LET mapped == IF hybrid_columns \subseteq columns
                  THEN columns \cup {"depression_keywords", "mobile_keywords",
                                     "behavioral_keywords", "result"}
                  ELSE columns
    IN IF required_columns \ mapped # {} THEN NoTable ELSE mapped \cup review_columns

\* the columns of the files of the three pipelines
RuleFileColumns == required_columns \cup {"DOI"}
HybridFileColumns ==
    {"Title", "Abstract", "DOI", "rule_depression_keywords", "rule_mobile_keywords",
     "rule_behavioral_keywords", "llm_depression_keywords", "llm_mobile_keywords",
     "llm_behavioral_keywords", "llm_reason"} \cup hybrid_columns

\* the tables offered to the session: hybrid files that load, and hybrid and other
\* files without one or more of the required columns
OfferedTables ==
    {[name |-> "hybrid_a.csv", columns |-> HybridFileColumns, rows |-> 2],
     [name |-> "hybrid_b.csv", columns |-> HybridFileColumns \cup required_columns, rows |-> 1],
     [name |-> "hybrid_c.csv",
      columns |-> HybridFileColumns \ {"rule_depression_keywords"}, rows |-> 2],
     [name |-> "no_title.csv", columns |-> HybridFileColumns \ {"Title"}, rows |-> 2],
     [name |-> "no_abstract.csv", columns |-> HybridFileColumns \ {"Abstract"}, rows |-> 2],
     [name |-> "no_result.csv", columns |-> RuleFileColumns \ {"result"}, rows |-> 2],
     [name |-> "no_keywords.csv",
      columns |-> RuleFileColumns \ {"mobile_keywords", "behavioral_keywords"}, rows |-> 2],
     [name |-> "llm_only.csv",
      columns |-> {"Title", "Abstract", "llm_result", "llm_reason"}, rows |-> 1]}

\* a load button pressed with one of the offered tables (lines 409-417, 435-442):
\* nothing but the error message comes of a table process_loaded_df turns down
LoadTable(file) ==
    IF process_loaded_df(file.columns) = NoTable
    THEN /\ last_op' = [op |-> "load_error", idx |-> current_idx]
         /\ UNCHANGED <<rv_pc, df, current_idx, selected_keywords, reviewer_name,
                        changes_made, status_filter, file_name>>
    ELSE /\ df' = [i \in 1..file.rows |-> ReviewRow(i)]
         /\ current_idx' = 0
         /\ selected_keywords' = load_current_paper_keywords
         /\ rv_pc' = "loaded"
         /\ file_name' = file.name
         /\ last_op' = [op |-> "load", idx |-> 0]
         /\ UNCHANGED <<reviewer_name, changes_made, status_filter>>

\* the row button of the data table (lines 655-663)
SelectRow(row_idx) ==
    /\ rv_pc = "loaded" /\ row_idx \in 0..(Len(df) - 1) /\ row_idx # current_idx
    /\ current_idx' = row_idx
    /\ selected_keywords' = load_current_paper_keywords
    /\ last_op' = [op |-> "select", idx |-> row_idx]
    /\ UNCHANGED <<rv_pc, df, reviewer_name, changes_made, status_filter, file_name>>

\* a change in one of the segmented controls (lines 957-1005)
SelectKeywords(category, new_set) ==
    /\ rv_pc = "loaded" /\ Len(df) > 0
    /\ new_set # selected_keywords[category]
    /\ selected_keywords' = [selected_keywords EXCEPT ![category] = new_set]
    /\ last_op' = [op |-> "keywords", idx |-> current_idx]
    /\ UNCHANGED <<rv_pc, df, current_idx, reviewer_name, changes_made, status_filter, file_name>>

\* 'include' if has_all_categories else 'exclude'
human_result_of(sel) ==
    IF Cardinality(sel.depression) > 0 /\ Cardinality(sel.mobile) > 0
       /\ Cardinality(sel.behavioral) > 0
    THEN "include" ELSE "exclude"

\* review_status '완료'
StatusDone == "done"

\* update_paper_data()
update_paper_data ==
    /\ rv_pc = "loaded" /\ Len(df) > 0
    /\ df' = [df EXCEPT ![current_idx + 1] =
                [@ EXCEPT !.human_depression_keywords = JoinedSelection.depression[selected_keywords.depression],
                          !.human_mobile_keywords = JoinedSelection.mobile[selected_keywords.mobile],
                          !.human_behavioral_keywords = JoinedSelection.behavioral[selected_keywords.behavioral],
                          !.human_result = human_result_of(selected_keywords),
                          !.reviewer_name = reviewer_name,
                          !.review_status = StatusDone,
                          !.review_date = Now]]
    /\ changes_made' = TRUE
    /\ last_op' = [op |-> "update", idx |-> current_idx]
    /\ UNCHANGED <<rv_pc, current_idx, selected_keywords, reviewer_name, status_filter, file_name>>

\* a plausible slip: the cursor moved on without looking for a next row
advance_unguarded(i, table) == i + 1

\* the cursor after the INCLUDE and EXCLUDE buttons: index + 1 while a row follows
\* (lines 782-784, 816-818)
advance(i, table) == IF i + 1 < Len(table) THEN i + 1 ELSE i

\* the INCLUDE button if it also overwrote the merged verdict
force_include_row_final(row, name) ==
    [row EXCEPT !.human_depression_keywords = "depression",
                !.human_mobile_keywords = "mobile",
                !.human_behavioral_keywords = "behavioral activation",
                !.human_result = "include",
                !.final_result = "include",
                !.reviewer_name = name,
                !.review_status = "include",
                !.review_date = Now]

\* the cells the INCLUDE button writes (lines 771-778)
force_include_row(row, name) ==
    [row EXCEPT !.human_depression_keywords = "depression",
                !.human_mobile_keywords = "mobile",
                !.human_behavioral_keywords = "behavioral activation",
                !.human_result = "include",
                !.reviewer_name = name,
                !.review_status = "include",
                !.review_date = Now]

\* the cells the EXCLUDE button writes (lines 805-812)
force_exclude_row(row, name) ==
    [row EXCEPT !.human_depression_keywords = "",
                !.human_mobile_keywords = "",
                !.human_behavioral_keywords = "",
                !.human_result = "exclude",
                !.reviewer_name = name,
                !.review_status = "exclude",
                !.review_date = Now]

\* a plausible slip: the reset without the human_result cell
reset_row_keeps_result(row) ==
    [row EXCEPT !.human_depression_keywords = "",
                !.human_mobile_keywords = "",
                !.human_behavioral_keywords = "",
                !.review_status = "incomplete",
                !.review_date = "None"]

\* the cells the reset button writes (lines 833-839)
reset_row(row) ==
    [row EXCEPT !.human_depression_keywords = "",
                !.human_mobile_keywords = "",
                !.human_behavioral_keywords = "",
                !.human_result = "",
                !.review_status = "incomplete",
                !.review_date = "None"]

\* the INCLUDE button (lines 764-795); data_page follows the cursor and stays 0 for
\* tables of fewer than ten rows
ForceInclude ==
    /\ rv_pc = "loaded" /\ Len(df) > 0
    /\ df' = [df EXCEPT ![current_idx + 1] = force_include_row(@, reviewer_name)]
    /\ changes_made' = TRUE
    /\ current_idx' = advance(current_idx, df)
    /\ selected_keywords' = IF current_idx + 1 < Len(df)
                             THEN load_current_paper_keywords ELSE IncludeSelection
    /\ last_op' = [op |-> "include", idx |-> current_idx]
    /\ UNCHANGED <<rv_pc, reviewer_name, status_filter, file_name>>

\* the EXCLUDE button (lines 798-829)
ForceExclude ==
    /\ rv_pc = "loaded" /\ Len(df) > 0
    /\ df' = [df EXCEPT ![current_idx + 1] = force_exclude_row(@, reviewer_name)]
    /\ changes_made' = TRUE
    /\ current_idx' = advance(current_idx, df)
    /\ selected_keywords' = IF current_idx + 1 < Len(df)
                             THEN load_current_paper_keywords ELSE NoSelection
    /\ last_op' = [op |-> "exclude", idx |-> current_idx]
    /\ UNCHANGED <<rv_pc, reviewer_name, status_filter, file_name>>

\* the reset button (lines 832-848)
Reset ==
    /\ rv_pc = "loaded" /\ Len(df) > 0
    /\ df' = [df EXCEPT ![current_idx + 1] = reset_row(@)]
    /\ changes_made' = TRUE
    /\ selected_keywords' = load_current_paper_keywords
    /\ last_op' = [op |-> "reset", idx |-> current_idx]
    /\ UNCHANGED <<rv_pc, current_idx, reviewer_name, status_filter, file_name>>

\* the reviewer radio of the sidebar (lines 475-497)
Reviewers == {"Hwang"}
SetReviewerName(name) ==
    /\ rv_pc = "loaded" /\ name # reviewer_name
    /\ reviewer_name' = name
    /\ last_op' = [op |-> "reviewer", idx |-> current_idx]
    /\ UNCHANGED <<rv_pc, df, current_idx, selected_keywords, changes_made, status_filter, file_name>>

\* the status selectbox of the data table (lines 579-583)
SetStatusFilter(f) ==
    /\ rv_pc = "loaded" /\ f # status_filter
    /\ status_filter' = f
    /\ last_op' = [op |-> "filter", idx |-> current_idx]
    /\ UNCHANGED <<rv_pc, df, current_idx, selected_keywords, reviewer_name, changes_made, file_name>>

\* the rows the data table shows under a status filter (lines 596-600)
passes_filter(row, f) ==
    IF f = "all" THEN TRUE
    ELSE IF f = "done" THEN row.review_status \in {StatusDone, "include", "exclude"}
    ELSE row.review_status = "incomplete"

\* the index labels of the displayed rows, in the order page_data.iterrows() yields them
displayed(table, f) == {i \in 0..(Len(table) - 1) : passes_filter(table[i + 1], f)}

----------------------------------------------------------------------------
(* pipeline_hybrid_filter.py: the statistics of run_pipeline and the report *)

\* the nearest integer to a / b, ties to the even one (round(), format '.1f')
round_div(a, b) ==
    LET q == a \div b
        rem == a % b
    IN IF 2 * rem < b THEN q
       ELSE IF 2 * rem > b THEN q + 1
       ELSE IF q % 2 = 0 THEN q ELSE q + 1

\* sum(1 for _, row in df.iterrows() if row['rule_result'] == 'exclude' and
\* row['final_result'] == 'include')
llm_rescued(table) ==
    Cardinality({i \in 1..Len(table) :
                    table[i].rule_result = "exclude" /\ table[i].final_result = "include"})

\* final_results[final_results['rule_result'] == 'exclude']
llm_processed(table) == SelectSeq(table, LAMBDA r : r.rule_result = "exclude")

\* run_pipeline from line 99 on and _generate_pipeline_summary: what becomes of the
\* table process_exclude_papers returned; rescue_rate in hundredths of a percent
pipeline_summary(final_results) ==
    IF \E i \in 1..Len(final_results) : final_results[i].final_result = Absent
    THEN [error |-> "KeyError", rescue_rate |-> 0]
    ELSE IF Len(final_results) = 0
    THEN [error |-> "ZeroDivisionError", rescue_rate |-> 0]
    ELSE [error |-> "",
          rescue_rate |-> IF Len(llm_processed(final_results)) > 0
                          THEN round_div(llm_rescued(final_results) * 10000,
                                         Len(llm_processed(final_results)))
                          ELSE 0]

\* generate_comparison_report: the line "구제율" of the report, in tenths of a percent
comparison_report(table) ==
    LET total_papers == Len(table)
        rule_include == Cardinality({i \in 1..Len(table) : table[i].rule_result = "include"})
    IN IF total_papers = 0 \/ total_papers - rule_include = 0
       THEN [error |-> "ZeroDivisionError", rescue_rate |-> 0]
       ELSE [error |-> "",
             rescue_rate |-> round_div(llm_rescued(table) * 1000, total_papers - rule_include)]

\* the rows of a table the LLM stage returns, by rule verdict and final verdict, and
\* the row of the table its early return hands back
MaxReportRows == 3
ResultRows ==
    {[result |-> "include", rule_result |-> "include", final_result |-> "include"],
     [result |-> NaN, rule_result |-> "exclude", final_result |-> "include"],
     [result |-> NaN, rule_result |-> "exclude", final_result |-> "exclude"]}
ResultTables ==
    UNION {[1..n -> ResultRows] : n \in 1..MaxReportRows}
    \cup {[i \in 1..n |->
               [result |-> "include", rule_result |-> Absent, final_result |-> Absent]] :
             n \in 1..MaxReportRows}

\* run_pipeline computes its statistics from the table the LLM stage returned
GenerateSummary ==
    /\ call_pc = "ready"
    /\ call_ret' = pipeline_summary(call_arg)
    /\ call_pc' = "summary"
    /\ UNCHANGED <<call_arg, ev_vars, art_vars, pl_vars, rv_vars>>

\* generate_comparison_report reads a results file, which has the merged columns
GenerateReport ==
    /\ call_pc = "ready"
    /\ \A i \in 1..Len(call_arg) : call_arg[i].rule_result # Absent
    /\ call_ret' = comparison_report(call_arg)
    /\ call_pc' = "report"
    /\ UNCHANGED <<call_arg, ev_vars, art_vars, pl_vars, rv_vars>>

ReportInit ==
    /\ call_pc = "ready" /\ call_arg \in ResultTables /\ call_ret = NoValue
    /\ EvIdle /\ ArtIdle /\ PlIdle /\ RvIdle

SpecReport == ReportInit /\ [][GenerateSummary \/ GenerateReport]_vars

----------------------------------------------------------------------------
(* rule_based_filter.py: process_dataframe, row by row                     *)

\* rows of a source table: those of PaperKinds and rows without title and abstract
MaxRuleRows == 2
RuleStageKinds ==
    PaperKinds \cup
    {[DOI |-> "10.1/none", Title |-> NaN, Abstract |-> NaN],
     [DOI |-> "10.1/blank", Title |-> "", Abstract |-> ""],
     [DOI |-> "10.1/notitle", Title |-> NaN, Abstract |-> "Exercise improves mood."]}

\* the loop body applied to each kind of row (evaluated once)
RuleStageRows == [p \in RuleStageKinds |-> rule_row(p)]

\* one pass of the loop of process_dataframe: call_ret.calls holds the positions of
\* the rows evaluate_single_paper was called for
RuleStageRow ==
    /\ call_pc = "rule_loop" /\ Len(call_ret.results) < Len(call_arg)
    /\ LET i == Len(call_ret.results) + 1
           row == call_arg[i]
       IN call_ret' =
              [results |-> Append(call_ret.results, RuleStageRows[row]),
               calls |-> IF clean_text(row.Title) = "" /\ clean_text(row.Abstract) = ""
                         THEN call_ret.calls ELSE call_ret.calls \cup {i}]
    /\ UNCHANGED <<call_pc, call_arg, ev_vars, art_vars, pl_vars, rv_vars>>

\* return pd.DataFrame(results)
RuleStageReturn ==
    /\ call_pc = "rule_loop" /\ Len(call_ret.results) = Len(call_arg)
    /\ call_pc' = "rule_done"
    /\ UNCHANGED <<call_arg, call_ret, ev_vars, art_vars, pl_vars, rv_vars>>

RuleStageInit ==
    /\ call_pc = "rule_loop"
    /\ call_arg \in UNION {[1..n -> RuleStageKinds] : n \in 0..MaxRuleRows}
    /\ call_ret = [results |-> <<>>, calls |-> {}]
    /\ EvIdle /\ ArtIdle /\ PlIdle /\ RvIdle

SpecRuleStage == RuleStageInit /\ [][RuleStageRow \/ RuleStageReturn]_vars

----------------------------------------------------------------------------
(* rule_based_filter.py: find_keywords_in_text on a text and a keyword list *)

SearchTexts ==
    {"", "An app.", "Apply now", "APP!", "Two apps", "A mobile-app", "app_store review",
     "Pineapple", "The iPhone 5", "iPhones", "Depression? Mobile", "Immobile",
     "Use a mobile application", "Mobile. Application"}
KeywordLists ==
    {<<"app">>, <<"mobile">>, <<"iPhone">>, <<"depression">>, <<"mobile application">>,
     <<"mobile", "app">>, <<"app", "mobile application", "iPhone">>,
     <<"depression", "android">>}

\* a caller invokes find_keywords_in_text(text, keywords)
FindKeywords ==
    /\ call_pc = "ready"
    /\ call_ret' = find_keywords_in_text(call_arg.text, call_arg.keywords)
    /\ call_pc' = "found"
    /\ UNCHANGED <<call_arg, ev_vars, art_vars, pl_vars, rv_vars>>

KeywordsInit ==
    /\ call_pc = "ready"
    /\ call_arg \in [text : SearchTexts, keywords : KeywordLists]
    /\ call_ret = NoValue
    /\ EvIdle /\ ArtIdle /\ PlIdle /\ RvIdle

SpecKeywords == KeywordsInit /\ [][FindKeywords]_vars

----------------------------------------------------------------------------
(* streamlit_keyword_review.py: wildcard conversion and the highlighter     *)

\* keyword.replace('*', r'\w*') followed by re.sub(r'\s+', r'\\s+', ...): the literal
\* pieces of the keyword with \w* for each star and \s+ for each run of whitespace
RECURSIVE WildcardAtoms(_, _, _)
WildcardAtoms(keyword, i, lit) ==
    LET flush == IF lit = "" THEN <<>> ELSE <<Lit(lit)>>
    IN IF i > Len(keyword) THEN flush
       ELSE IF Char(keyword, i) = "*"
       THEN flush \o <<WordStar>> \o WildcardAtoms(keyword, i + 1, "")
       ELSE IF IsSpaceChar(Char(keyword, i))
       THEN flush \o <<SpacePlus>> \o WildcardAtoms(keyword, i + RunLen(keyword, i, TRUE), "")
       ELSE WildcardAtoms(keyword, i + 1, lit \o Char(keyword, i))

\* convert_wildcard_to_regex(keyword): the pattern, or <<>> for None
convert_wildcard_to_regex(keyword) ==
    IF "*" \in CharsOf(keyword)
    THEN <<WordBoundary>> \o WildcardAtoms(keyword, 1, "") \o <<WordBoundary>>
    ELSE <<>>

\* the wildcard templates of the review tool, in the order of the rule matcher's patterns
WildcardTemplates == <<"activity schedul*", "behavio* interven*", "behavio* therap*">>

WildcardTexts ==
    {"", "Activity scheduling", "activity  schedule", "activity\nscheduling",
     "activity\tschedul", "activityscheduling", "proactivity scheduling",
     "Behaviour therapy", "behavioral   interventions", "behavio therap",
     "misbehavior therapy", "behavior-therapy", "Behavioural\nInterventions work",
     "behaviour therapies and activity scheduling", "BEHAVIOR THERAPY",
     "activity schedule, behavior  intervention", "behavio_r therapy_x", "no match here"}

\* the matches of template n in a text: by the rule matcher's pattern on the lower-cased
\* text and by the highlighter's converted pattern on the text
MatchWildcard ==
    /\ call_pc = "ready"
    /\ call_ret' =
           [rule |-> re_finditer(behavioral_patterns[call_arg.n], lower(call_arg.text), TRUE),
            highlight |-> re_finditer(convert_wildcard_to_regex(WildcardTemplates[call_arg.n]),
                                      call_arg.text, TRUE)]
    /\ call_pc' = "matched"
    /\ UNCHANGED <<call_arg, ev_vars, art_vars, pl_vars, rv_vars>>

WildcardInit ==
    /\ call_pc = "ready"
    /\ call_arg \in [text : WildcardTexts, n : 1..Len(WildcardTemplates)]
    /\ call_ret = NoValue
    /\ EvIdle /\ ArtIdle /\ PlIdle /\ RvIdle

SpecWildcard == WildcardInit /\ [][MatchWildcard]_vars

\* the pattern highlight_all_keywords compiles for one keyword (re.IGNORECASE throughout)
highlight_pattern(keyword, use_word_boundary) ==
    IF convert_wildcard_to_regex(keyword) # <<>>
    THEN convert_wildcard_to_regex(keyword)
    ELSE IF use_word_boundary /\ NumTokens(keyword) = 1
    THEN <<WordBoundary, Lit(keyword), WordBoundary>>
    ELSE <<Lit(keyword)>>

\* a plausible slip: the keyword recorded as the text of the match
match_records_keyword(text, spans, item) ==
    [i \in 1..Len(spans) |->
        [start |-> spans[i][1] - 1, end |-> spans[i][2] - 1,
         text |-> item.keyword, class |-> "highlight-" \o item.category]]

\* the dictionaries appended to all_matches for the matches of one keyword
\* (offsets from 0, end exclusive; text is match.group(0))
match_records(text, spans, item) ==
    [i \in 1..Len(spans) |->
        [start |-> spans[i][1] - 1, end |-> spans[i][2] - 1,
         text |-> SubSeq(text, spans[i][1], spans[i][2] - 1),
         class |-> "highlight-" \o item.category]]

\* all_matches as the two loops fill it: keyword by keyword in iteration order
RECURSIVE collect_matches(_, _, _, _)
collect_matches(text, items, use_word_boundary, i) ==
    IF i > Len(items) THEN <<>>
    ELSE match_records(text,
                       re_finditer(highlight_pattern(items[i].keyword, use_word_boundary),
                                   text, TRUE),
                       items[i])
         \o collect_matches(text, items, use_word_boundary, i + 1)

\* a plausible slip: reverse=True left out
RECURSIVE sort_by_start_ascending(_)
sort_by_start_ascending(matches) ==
    IF matches = <<>> THEN <<>>
    ELSE LET rest == sort_by_start_ascending(SubSeq(matches, 1, Len(matches) - 1))
             m == matches[Len(matches)]
             k == Cardinality({i \in 1..Len(rest) : rest[i].start <= m.start})
         IN SubSeq(rest, 1, k) \o <<m>> \o SubSeq(rest, k + 1, Len(rest))

\* all_matches.sort(key=lambda x: x['start'], reverse=True): descending by start, and
\* stable, so matches with equal start stay in the order they were produced
RECURSIVE sort_by_start_reverse(_)
sort_by_start_reverse(matches) ==
    IF matches = <<>> THEN <<>>
    ELSE LET rest == sort_by_start_reverse(SubSeq(matches, 1, Len(matches) - 1))
             m == matches[Len(matches)]
             k == Cardinality({i \in 1..Len(rest) : rest[i].start >= m.start})
         IN SubSeq(rest, 1, k) \o <<m>> \o SubSeq(rest, k + 1, Len(rest))

\* a plausible slip: the overlap test with a strict comparison of the two starts
is_overlap_strict(match, existing) ==
    match.start < existing.start /\ match.end > existing.start

\* match['start'] < existing['end'] and match['end'] > existing['start']
is_overlap(match, existing) ==
    match.start < existing.end /\ match.end > existing.start

\* filtered_matches: a match is appended unless it overlaps one appended before it
RECURSIVE filter_matches(_, _, _)
filter_matches(all_matches, i, filtered_matches) ==
    IF i > Len(all_matches) THEN filtered_matches
    ELSE IF \E j \in 1..Len(filtered_matches) : is_overlap(all_matches[i], filtered_matches[j])
    THEN filter_matches(all_matches, i + 1, filtered_matches)
    ELSE filter_matches(all_matches, i + 1, Append(filtered_matches, all_matches[i]))

\* the text after one replacement
wrap(highlighted_text, match) ==
    SubSeq(highlighted_text, 1, match.start)
        \o "<span class=\"" \o match.class \o "\">" \o match.text \o "</span>"
        \o SubSeq(highlighted_text, match.end + 1, Len(highlighted_text))

\* the replacements, applied in the order of filtered_matches
RECURSIVE apply_matches(_, _, _)
apply_matches(highlighted_text, filtered_matches, i) ==
    IF i > Len(filtered_matches) THEN highlighted_text
    ELSE apply_matches(wrap(highlighted_text, filtered_matches[i]), filtered_matches, i + 1)

highlight_filtered(text, produced, all_matches, filtered_matches) ==
    [produced |-> produced, all_matches |-> all_matches, filtered_matches |-> filtered_matches,
     highlighted_text |-> apply_matches(text, filtered_matches, 1)]

highlight_sorted(text, produced, all_matches) ==
    highlight_filtered(text, produced, all_matches, filter_matches(all_matches, 1, <<>>))

highlight_produced(text, produced) ==
    highlight_sorted(text, produced, sort_by_start_reverse(produced))

\* highlight_all_keywords(text, all_selected_keywords): the returned text together with
\* the lists the function builds on the way; items lists the selected keywords in the
\* order the two loops visit them
highlight_all_keywords(text, items, use_word_boundary) ==
    IF text = ""
    THEN [produced |-> <<>>, all_matches |-> <<>>, filtered_matches |-> <<>>,
          highlighted_text |-> text]
    ELSE highlight_produced(text, collect_matches(text, items, use_word_boundary, 1))

\* the orders in which a loop may visit the members of a set
IterationOrders(keywords) ==
    {order \in [1..Cardinality(keywords) -> keywords] :
        \A i, j \in 1..Cardinality(keywords) : i # j => order[i] # order[j]}

tagged(category, order) ==
    [i \in 1..Len(order) |-> [category |-> category, keyword |-> order[i]]]

\* the visits of `for category, keywords in all_selected_keywords.items()` with its
\* inner loop: the categories in the order of the dictionary, each set in any order
VisitOrders(selection) ==
    {tagged("depression", d) \o tagged("mobile", m) \o tagged("behavioral", b) :
        d \in IterationOrders(selection.depression),
        m \in IterationOrders(selection.mobile),
        b \in IterationOrders(selection.behavioral)}

HighlightSelections ==
    {NoSelection,
     [depression |-> {}, mobile |-> {"smartphone application", "smartphone", "app"},
      behavioral |-> {}],
     [depression |-> {"depression"}, mobile |-> {"digital", "digital therapeutic"},
      behavioral |-> {"behavio* therap*"}],
     [depression |-> {"depressive symptoms", "depression"},
      mobile |-> {"mobile", "mobile application"}, behavioral |-> {"behavioral activation"}],
     [depression |-> {}, mobile |-> {"android", "digital"}, behavioral |-> {}]}

HighlightTexts ==
    {"", "A Smartphone application for depression",
     "Digital therapeutics: behaviour  therapy apps",
     "mobile application, depressive symptoms\nand Behavioral Activation",
     "androidigital app", "no keyword here"}

\* the page renders the text of a record with the selected keywords highlighted
HighlightText ==
    /\ call_pc = "ready"
    /\ call_ret' = highlight_all_keywords(call_arg.text, call_arg.items,
                                          call_arg.use_word_boundary)
    /\ call_pc' = "highlighted"
    /\ UNCHANGED <<call_arg, ev_vars, art_vars, pl_vars, rv_vars>>

HighlightInit ==
    /\ call_pc = "ready"
    /\ \E selection \in HighlightSelections :
          call_arg \in [text : HighlightTexts, items : VisitOrders(selection),
                        use_word_boundary : BOOLEAN]
    /\ call_ret = NoValue
    /\ EvIdle /\ ArtIdle /\ PlIdle /\ RvIdle

SpecHighlight == HighlightInit /\ [][HighlightText]_vars

----------------------------------------------------------------------------
(* extract_abstract/extract_by_title_matching.py: save_results              *)

\* the length above which a text field is reported as abnormally long, the length of
\* the prefix kept for it, and the marker appended to the prefix
LongFieldLimit == 10000
KeptPrefix == 5000
TruncationMarker == "... [TRUNCATED]"

\* str.replace(old, new) for a one-character old
RECURSIVE replace(_, _, _)
replace(value, old, new) ==
    IF Len(value) = 0 THEN value
    ELSE IF Len(value) = 1 THEN (IF value = old THEN new ELSE value)
    ELSE replace(SubSeq(value, 1, Len(value) \div 2), old, new)
             \o replace(SubSeq(value, Len(value) \div 2 + 1, Len(value)), old, new)

\* the body of `for key, value in output_row.items()` for one text field: the first
\* assignment keeps the prefix and the marker, the second one assigns the flattened
\* `value`, the string the loop variable was bound to before the first assignment
clean_field(row, key) ==
    LET value == row[key]
        checked == IF Len(value) > LongFieldLimit
                   THEN [row EXCEPT ![key] = SubSeq(value, 1, KeptPrefix) \o TruncationMarker]
                   ELSE row
    IN [checked EXCEPT ![key] = replace(replace(value, "\n", " "), "\r", " ")]

clean_row(row) == clean_field(clean_field(row, "Title"), "Abstract")

\* the match columns of a row of the complete file, by the list its title is in
match_columns(title, matches) ==
    IF \E i \in 1..Len(matches.exact) : matches.exact[i].meta_title = title
    THEN [Match_Type |-> "Exact", Match_Similarity |-> "1.0", Match_Status |-> "Success",
          Matched_Title |-> title]
    ELSE IF \E i \in 1..Len(matches.fuzzy) : matches.fuzzy[i].meta_title = title
    THEN [Match_Type |-> "Fuzzy", Match_Similarity |-> "0.8", Match_Status |-> "Success",
          Matched_Title |-> title]
    ELSE IF \E i \in 1..Len(matches.no_match) : matches.no_match[i].row.Title = title
    THEN [Match_Type |-> "None", Match_Similarity |-> "0.0",
          Match_Status |-> "Failed: " \o matches.no_match[1].reason, Matched_Title |-> ""]
    ELSE [Match_Type |-> "Existing", Match_Similarity |-> "1.0",
          Match_Status |-> "Had Abstract", Matched_Title |-> ""]

\* the rows save_results writes to the complete file and to the failed-matches file
complete_rows(meta_data, matches) ==
    [i \in 1..Len(meta_data) |->
        [text |-> clean_row(meta_data[i]), match |-> match_columns(meta_data[i].Title, matches)]]

failed_rows(matches) ==
    [i \in 1..Len(matches.no_match) |->
        [text |-> clean_row(matches.no_match[i].row),
         Failure_Reason |-> matches.no_match[i].reason]]

RECURSIVE Repeat(_, _)
Repeat(s, n) ==
    IF n = 0 THEN ""
    ELSE IF n % 2 = 1 THEN s \o Repeat(s, n - 1)
    ELSE LET half == Repeat(s, n \div 2) IN half \o half

ImportTitles ==
    {"Mobile CBT", "Mobile\nCBT trial", "A\r\nB", Repeat("t", LongFieldLimit)}

ImportAbstracts ==
    {"", "Background: x.\nMethods: y.", "one line",
     Repeat("a", LongFieldLimit),
     Repeat("a", LongFieldLimit + 1),
     Repeat("a", KeptPrefix - 1) \o "\n" \o Repeat("b", KeptPrefix + 1),
     Repeat("a", KeptPrefix + 1) \o "\r" \o Repeat("b", KeptPrefix + 1)}

MatchKinds == {"exact", "fuzzy", "no_match", "existing"}

\* the matches of match_titles_and_extract for a one-row table
matches_of(row, kind) ==
    [exact |-> IF kind = "exact"
               THEN <<[meta_title |-> row.Title, matched_title |-> row.Title]>> ELSE <<>>,
     fuzzy |-> IF kind = "fuzzy"
               THEN <<[meta_title |-> row.Title, matched_title |-> row.Title]>> ELSE <<>>,
     no_match |-> IF kind = "no_match"
                  THEN <<[row |-> row, reason |-> "No similar title found"]>> ELSE <<>>]

\* save_results(meta_data, matches, output_dir)
SaveResults ==
    /\ call_pc = "ready"
    /\ call_ret' = [complete |-> complete_rows(call_arg.meta_data, call_arg.matches),
                    failed |-> failed_rows(call_arg.matches)]
    /\ call_pc' = "saved"
    /\ UNCHANGED <<call_arg, ev_vars, art_vars, pl_vars, rv_vars>>

SaveInit ==
    /\ call_pc = "ready"
    /\ \E title \in ImportTitles, abstract \in ImportAbstracts, kind \in MatchKinds :
          LET row == [Title |-> title, Abstract |-> abstract]
          IN call_arg = [meta_data |-> <<row>>, matches |-> matches_of(row, kind)]
    /\ call_ret = NoValue
    /\ EvIdle /\ ArtIdle /\ PlIdle /\ RvIdle

SpecSave == SaveInit /\ [][SaveResults]_vars

CallIdle == call_pc = "idle" /\ call_arg = NoValue /\ call_ret = NoValue

Init ==
    /\ EvIdle /\ ArtIdle /\ RvIdle /\ CallIdle
    /\ pc = "idle" /\ clock = 1 /\ entry = "" /\ input_df = <<>>
    /\ output_file = 0 /\ interval = 0 /\ idx = 0 /\ results = <<>> /\ returned = <<>>
    /\ checkpoints = [f \in FileNames |-> NoFile] /\ outputs = {}
    /\ llm_log = {} /\ last_call = "" /\ hist = NoCrash

\* one call of the batch, from the pipeline or directly, run to its end
Next ==
    \/ \E t \in SourceTables : RunPipeline(t) /\ UNCHANGED <<ev_vars, art_vars, rv_vars, call_vars>>
    \/ \E t \in SourceTables, out \in FileNames, k \in 1..DefaultInterval :
           DirectCall(t, out, k) /\ UNCHANGED <<ev_vars, art_vars, rv_vars, call_vars>>
    \/ ProcessMissingRecord /\ UNCHANGED <<ev_vars, art_vars, rv_vars, call_vars>>
    \/ \E resp \in Responses : ProcessRecord(resp) /\ UNCHANGED <<ev_vars, art_vars, rv_vars, call_vars>>
    \/ WriteFinal /\ UNCHANGED <<ev_vars, art_vars, rv_vars, call_vars>>
    \/ RemoveCheckpointAndReturn /\ UNCHANGED <<ev_vars, art_vars, rv_vars, call_vars>>

Spec == Init /\ [][Next]_vars

\* the collaborator of the runs that are killed and started again: it answers or fails
ResumeResponses ==
    {Response("ok", FullDict("include", "relevant"), "raise", "error", PyNone),
     Response("raise", EmptyDict, "raise", "error", PyNone)}

\* a call of the batch that may be killed, and the call made after that
NextResume ==
    \/ \E t \in SourceTables : RunPipeline(t) /\ UNCHANGED <<ev_vars, art_vars, rv_vars, call_vars>>
    \/ \E t \in SourceTables, out \in FileNames, k \in 1..DefaultInterval :
           DirectCall(t, out, k) /\ UNCHANGED <<ev_vars, art_vars, rv_vars, call_vars>>
    \/ ProcessMissingRecord /\ UNCHANGED <<ev_vars, art_vars, rv_vars, call_vars>>
    \/ \E resp \in ResumeResponses :
           ProcessRecord(resp) /\ UNCHANGED <<ev_vars, art_vars, rv_vars, call_vars>>
    \/ WriteFinal /\ UNCHANGED <<ev_vars, art_vars, rv_vars, call_vars>>
    \/ RemoveCheckpointAndReturn /\ UNCHANGED <<ev_vars, art_vars, rv_vars, call_vars>>
    \/ Crash /\ UNCHANGED <<ev_vars, art_vars, rv_vars, call_vars>>
    \/ \E n \in 0..MaxRows : CrashInCheckpointWrite(n) /\ UNCHANGED <<ev_vars, art_vars, rv_vars, call_vars>>
    \/ Tick /\ UNCHANGED <<ev_vars, art_vars, rv_vars, call_vars>>

SpecResume == Init /\ [][NextResume]_vars

NextArticle ==
    \/ \E resp \in ArticleResponses : CallArticle(resp) /\ UNCHANGED <<ev_vars, pl_vars, rv_vars, call_vars>>
    \/ StructuredAttempt /\ UNCHANGED <<ev_vars, pl_vars, rv_vars, call_vars>>
    \/ FallbackAttempt /\ UNCHANGED <<ev_vars, pl_vars, rv_vars, call_vars>>
    \/ FinishArticle /\ UNCHANGED <<ev_vars, pl_vars, rv_vars, call_vars>>

SpecArticle == Init /\ [][NextArticle]_vars

NextReview ==
    \/ \E n \in 1..MaxReviewRows : LoadFile(n) /\ UNCHANGED <<ev_vars, art_vars, pl_vars, call_vars>>
    \/ \E i \in 0..(MaxReviewRows - 1) : SelectRow(i) /\ UNCHANGED <<ev_vars, art_vars, pl_vars, call_vars>>
    \/ \E c \in Categories : \E S \in SelectionChoices[c] :
           SelectKeywords(c, S) /\ UNCHANGED <<ev_vars, art_vars, pl_vars, call_vars>>
    \/ update_paper_data /\ UNCHANGED <<ev_vars, art_vars, pl_vars, call_vars>>

SpecReview == Init /\ [][NextReview]_vars

\* a review session with every operation that writes a record or moves the cursor
NextDecide ==
    \/ \E n \in 1..MaxReviewRows : LoadFile(n) /\ UNCHANGED <<ev_vars, art_vars, pl_vars, call_vars>>
    \/ \E i \in 0..(MaxReviewRows - 1) : SelectRow(i) /\ UNCHANGED <<ev_vars, art_vars, pl_vars, call_vars>>
    \/ SelectKeywords("mobile", {}) /\ UNCHANGED <<ev_vars, art_vars, pl_vars, call_vars>>
    \/ update_paper_data /\ UNCHANGED <<ev_vars, art_vars, pl_vars, call_vars>>
    \/ ForceInclude /\ UNCHANGED <<ev_vars, art_vars, pl_vars, call_vars>>
    \/ ForceExclude /\ UNCHANGED <<ev_vars, art_vars, pl_vars, call_vars>>
    \/ Reset /\ UNCHANGED <<ev_vars, art_vars, pl_vars, call_vars>>

SpecDecide == Init /\ [][NextDecide]_vars

\* a session in which tables of every kind are offered between other operations
NextLoad ==
    \/ \E file \in OfferedTables : LoadTable(file) /\ UNCHANGED <<ev_vars, art_vars, pl_vars, call_vars>>
    \/ \E i \in 0..(MaxReviewRows - 1) : SelectRow(i) /\ UNCHANGED <<ev_vars, art_vars, pl_vars, call_vars>>
    \/ SelectKeywords("mobile", {}) /\ UNCHANGED <<ev_vars, art_vars, pl_vars, call_vars>>
    \/ ForceInclude /\ UNCHANGED <<ev_vars, art_vars, pl_vars, call_vars>>
    \/ ForceExclude /\ UNCHANGED <<ev_vars, art_vars, pl_vars, call_vars>>

SpecLoad == Init /\ [][NextLoad]_vars

\* a session of one-click decisions under a reviewer name and a status filter
MaxBrowseRows == 3
NextBrowse ==
    \/ LoadFile(MaxBrowseRows) /\ UNCHANGED <<ev_vars, art_vars, pl_vars, call_vars>>
    \/ \E i \in 0..(MaxBrowseRows - 1) : SelectRow(i) /\ UNCHANGED <<ev_vars, art_vars, pl_vars, call_vars>>
    \/ \E name \in Reviewers : SetReviewerName(name) /\ UNCHANGED <<ev_vars, art_vars, pl_vars, call_vars>>
    \/ \E f \in StatusFilters :
           SetStatusFilter(f) /\ UNCHANGED <<ev_vars, art_vars, pl_vars, call_vars>>
    \/ ForceInclude /\ UNCHANGED <<ev_vars, art_vars, pl_vars, call_vars>>
    \/ ForceExclude /\ UNCHANGED <<ev_vars, art_vars, pl_vars, call_vars>>
    \/ Reset /\ UNCHANGED <<ev_vars, art_vars, pl_vars, call_vars>>

SpecBrowse == Init /\ [][NextBrowse]_vars

\* the harness for evaluate_single_paper
EvInit ==
    /\ ev_pc = "ready" /\ ev_title \in Titles /\ ev_abstract \in Abstracts
    /\ ev_found = NoValue /\ ev_out = NoValue
    /\ ArtIdle /\ PlIdle /\ RvIdle /\ CallIdle

SpecEval == EvInit /\ [][EvaluatePaper]_vars

----------------------------------------------------------------------------
(* Properties                                                               *)

\* the rule verdict of a record of a returned table
RuleVerdict(r) == IF r.rule_result # Absent THEN r.rule_result ELSE r.result

\* how many rows of a table satisfy a test
CountRows(table, Test(_)) == Cardinality({i \in 1..Len(table) : Test(table[i])})

\* C1: evaluate_single_paper returns 'include' exactly when the depression, mobile and
\* behavioral matched-term lists are all three non-empty, and 'exclude' otherwise.
C1_IncludeIffAllThree ==
    ev_pc = "done" =>
        /\ ev_out.result \in {"include", "exclude"}
        /\ ev_out.result = "include" <=>
               (/\ ev_found.depression # <<>>
                /\ ev_found.mobile # <<>>
                /\ ev_found.behavioral # <<>>)

\* C1 happens: a paper with two of the three lists non-empty has been evaluated
C1_Witness ==
    /\ ev_pc = "done" /\ ev_out.result = "exclude"
    /\ ev_found.depression # <<>> /\ ev_found.mobile # <<>> /\ ev_found.behavioral = <<>>

\* C2: in the table process_exclude_papers returns, a record that went through the LLM
\* stage (rule verdict exclude) has final_result = llm_result, and every other record
\* has final_result = its rule verdict.
C2_FinalResultFollowsStage ==
    pc = "returned" =>
        \A i \in 1..Len(returned) :
            LET r == returned[i]
            IN IF RuleVerdict(r) = "exclude" THEN r.final_result = r.llm_result
               ELSE r.final_result = RuleVerdict(r)

\* C3: the collaborator is invoked only for rule-excluded records, and every
\* rule-included record is in the returned table with its rule fields unchanged,
\* llm_result = not_processed and final_result = include.
C3_IncludedPassThrough ==
    /\ llm_log \subseteq {"exclude"}
    /\ pc = "returned" =>
           \A j \in 1..Len(include_df(input_df)) :
               LET row == include_df(input_df)[j]
               IN \E i \in 1..Len(returned) :
                      /\ returned[i].DOI = row.DOI /\ returned[i].Title = row.Title
                      /\ returned[i].Abstract = row.Abstract
                      /\ returned[i].rule_depression_keywords = row.depression_keywords
                      /\ returned[i].rule_mobile_keywords = row.mobile_keywords
                      /\ returned[i].rule_behavioral_keywords = row.behavioral_keywords
                      /\ returned[i].rule_result = "include"
                      /\ returned[i].llm_result = "not_processed"
                      /\ returned[i].final_result = "include"

\* C4: when the collaborator fails for a record, the record gets llm_result = exclude,
\* a non-empty llm_reason and final_result = exclude, the loop goes on, and no
\* collaborator outcome aborts the batch: the batch ends with a result for every
\* rule-excluded record.
C4_FailureExcludesAndContinues ==
    /\ pc # "aborted"
    /\ last_call = "failed" =>
           /\ pc \in {"loop", "written", "returned"}
           /\ idx = Len(results) /\ idx > 0
           /\ results[idx].llm_result = "exclude"
           /\ results[idx].llm_reason # ""
           /\ results[idx].final_result = "exclude"
    /\ pc = "written" => Len(results) = Len(exclude_df(input_df))

\* C4 happens: the collaborator failed for the first record and the batch finished
\* with the second record reviewed
C4_Witness ==
    /\ pc = "returned" /\ Len(results) = 2
    /\ results[1].llm_reason = ReasonFailed /\ results[1].final_result = "exclude"
    /\ results[2].llm_result = "include" /\ last_call = "ok"

\* the retry of a call had a usable result: a response text with a non-empty JSON object
FallbackSucceeds(resp) ==
    /\ resp.retry = "text" /\ resp.loads = "value"
    /\ resp.json.kind = "dict" /\ resp.json.d.size > 0

\* C5: process_single_article tries the structured parse first; only if that raises it
\* tries the raw-text fallback; it returns None only after both attempts failed and the
\* fallback's result when the fallback succeeds; no exception leaves the call.
C5_TwoAttemptPolicy ==
    /\ art_pc # "raised"
    /\ art_pc = "except" => (art_trace = <<"structured">> /\ art_resp.structured = "raise")
    /\ art_pc = "returned" =>
           IF art_resp.structured = "ok"
           THEN art_trace = <<"structured">> /\ art_ret = PyDict(art_resp.dict)
           ELSE /\ art_trace = <<"structured", "raw">>
                /\ art_ret = IF FallbackSucceeds(art_resp) THEN art_resp.json ELSE PyNone

\* C5 happens: both attempts were made, the retry's JSON was no object, and the call
\* returned None
C5_Witness ==
    /\ art_pc = "returned" /\ art_trace = <<"structured", "raw">>
    /\ art_resp.json = PyOther(TRUE) /\ art_ret = PyNone

\* C6: after both stages, the rescued records (rule verdict exclude, final_result
\* include) are at most the rule-excluded records, and the records with final_result
\* include are at least the rule-included records.
C6_RescueBounds ==
    pc = "returned" =>
        LET rescued(r) == RuleVerdict(r) = "exclude" /\ r.final_result = "include"
            final_include(r) == r.final_result = "include"
        IN /\ CountRows(returned, rescued) <= Len(exclude_df(input_df))
           /\ CountRows(returned, final_include) >= Len(include_df(input_df))

\* C7: a batch restarted after a crash that left a checkpoint resumes at the record
\* after the last checkpointed one, and the finished run holds exactly one result per
\* rule-excluded record.
C7_ResumesAfterCheckpoint ==
    /\ (hist.restart /\ hist.ckpt > 0) => hist.start = hist.ckpt
    /\ (hist.restart /\ pc = "returned") => Len(results) = Len(exclude_df(input_df))

\* C8: a batch with checkpoint interval K that crashed between two checkpoint writes
\* re-processes, when restarted, at most K-1 records it had processed before the crash.
C8_LosesLessThanInterval ==
    (hist.restart /\ ~hist.torn) => hist.done - hist.start <= hist.interval - 1

\* C9: when process_exclude_papers has returned, no checkpoint file of its output file
\* exists, and the checkpoint was removed only after the output file was written.
C9_NoCheckpointAfterReturn ==
    pc = "returned" =>
        /\ ~checkpoints[output_file].exists
        /\ Len(exclude_df(input_df)) > 0 => output_file \in outputs

\* the keywords of a comma-joined string, in the order they are written
SplitCommaList(str) ==
    LET seps == {i \in 1..(Len(str) - 1) : SubSeq(str, i, i + 1) = ", "}
        starts == Ascending({1} \cup {i + 2 : i \in seps})
        ends == Ascending({i - 1 : i \in seps} \cup {Len(str)})
    IN IF str = "" THEN <<>> ELSE [k \in 1..Len(starts) |-> SubSeq(str, starts[k], ends[k])]

\* a stored string lists exactly the selected keywords, in ascending order
IsSortedJoin(str, selection) ==
    LET list == SplitCommaList(str)
    IN /\ Len(list) = Cardinality(selection)
       /\ {list[k] : k \in 1..Len(list)} = selection
       /\ \A k \in 1..(Len(list) - 1) : str_lt(list[k], list[k + 1])

\* C10: update_paper_data stores each category's selected keywords as a sorted
\* comma-joined string in the current record, and human_result = include exactly when
\* all three selections are non-empty, exclude otherwise.
C10_UpdateStoresSortedSelection ==
    last_op.op = "update" =>
        LET r == df[last_op.idx + 1]
        IN /\ last_op.idx = current_idx
           /\ IsSortedJoin(r.human_depression_keywords, selected_keywords.depression)
           /\ IsSortedJoin(r.human_mobile_keywords, selected_keywords.mobile)
           /\ IsSortedJoin(r.human_behavioral_keywords, selected_keywords.behavioral)
           /\ r.human_result \in {"include", "exclude"}
           /\ r.human_result = "include" <=>
                  (/\ selected_keywords.depression # {}
                   /\ selected_keywords.mobile # {}
                   /\ selected_keywords.behavioral # {})

\* C10 happens: a selection of three mobile keywords was applied to the second record
C10_Witness ==
    /\ last_op = [op |-> "update", idx |-> 1]
    /\ selected_keywords.mobile = {"smartphone", "mobile application", "app"}
    /\ df[2].human_mobile_keywords = "app, mobile application, smartphone"
    /\ df[2].human_result = "include"

\* C11: no operation of the review session (apply decision, force-include,
\* force-exclude, reset, keyword toggle, record selection) changes the rule-stage
\* fields, the LLM-stage fields or final_result of any record: every record of the
\* session table still carries the stage fields it was loaded with.
C11_StageFieldsFrame ==
    rv_pc = "loaded" =>
        \A i \in 1..Len(df) : StageFields(df[i]) = StageFields(ReviewRow(i))

\* a session in which the one-click decisions and the applied decision all wrote
C11_Witness ==
    /\ Len(df) = 2
    /\ df[1].review_status = "include" /\ df[2].review_status = StatusDone
    /\ df[2].final_result = "exclude" /\ df[2].human_result = "include"
    /\ last_op.op = "select"

\* C12: the reset operation clears every human field of the current record (the
\* three human keyword fields, human_result, reviewer_name, review_date), sets its
\* review_status to the not-reviewed value, leaves every other record unchanged and
\* does not move the cursor.
C12_ResetClearsHumanFields ==
    [][last_op'.op = "reset" =>
          /\ current_idx' = current_idx
          /\ Len(df') = Len(df)
          /\ \A i \in 1..Len(df) : i # current_idx + 1 => df'[i] = df[i]
          /\ LET r == df'[current_idx + 1]
             IN /\ r.human_depression_keywords = "" /\ r.human_mobile_keywords = ""
                /\ r.human_behavioral_keywords = "" /\ r.human_result = ""
                /\ r.reviewer_name = "" /\ r.review_date = "None"
                /\ r.review_status = "incomplete"]_vars

\* the least element of a non-empty set of indices
MinOf(S) == CHOOSE m \in S : \A j \in S : m <= j

\* C13: force-include stores one canonical keyword per category and human_result
\* include, force-exclude clears the three keyword fields and stores exclude; both
\* stamp the reviewer name and the date, and then the cursor is on the next record
\* in display order, the order of the rows shown under the active status filter.
C13_ForceDecisionAdvancesInDisplayOrder ==
    last_op.op \in {"include", "exclude"} =>
        LET r == df[last_op.idx + 1]
            later == {j \in displayed(df, status_filter) : j > last_op.idx}
        IN /\ last_op.op = "include" =>
                  /\ r.human_depression_keywords = "depression"
                  /\ r.human_mobile_keywords = "mobile"
                  /\ r.human_behavioral_keywords = "behavioral activation"
                  /\ r.human_result = "include"
           /\ last_op.op = "exclude" =>
                  /\ r.human_depression_keywords = "" /\ r.human_mobile_keywords = ""
                  /\ r.human_behavioral_keywords = "" /\ r.human_result = "exclude"
           /\ r.reviewer_name = reviewer_name /\ r.review_date = Now
           /\ later # {} => current_idx = MinOf(later)

\* C14: every record of the table the LLM stage returns has llm_result in
\* {include, exclude, not_processed} and final_result in {include, exclude},
\* whatever the collaborator answered (stated for the runs that had a rule-excluded
\* record to process).
C14_VerdictDomains ==
    (pc = "returned" /\ Len(exclude_df(input_df)) > 0) =>
        \A i \in 1..Len(returned) :
            /\ returned[i].llm_result \in {"include", "exclude", "not_processed"}
            /\ returned[i].final_result \in {"include", "exclude"}

\* a keyword cell that holds at least one keyword
FieldFilled(x) == x \notin {"", NaN, "nan", Absent}

\* C15: in the table the LLM stage returns, the rule verdict of a record is include
\* exactly when its three rule keyword fields are non-empty, its LLM verdict is
\* include exactly when its three LLM keyword fields are non-empty, and a record the
\* LLM stage produced no data for (already included, text missing, collaborator
\* failed) carries llm_result not_processed rather than exclude (stated for the runs
\* that had a rule-excluded record to process).
C15_StageVerdictFromKeywords ==
    (pc = "returned" /\ Len(exclude_df(input_df)) > 0) =>
        \A i \in 1..Len(returned) :
            LET r == returned[i]
            IN /\ (r.rule_result = "include") <=>
                      (/\ FieldFilled(r.rule_depression_keywords)
                       /\ FieldFilled(r.rule_mobile_keywords)
                       /\ FieldFilled(r.rule_behavioral_keywords))
               /\ IF r.llm_reason \in {ReasonAlreadyIncluded, ReasonMissing, ReasonFailed}
                  THEN r.llm_result = "not_processed"
                  ELSE (r.llm_result = "include") <=>
                           (/\ FieldFilled(r.llm_depression_keywords)
                            /\ FieldFilled(r.llm_mobile_keywords)
                            /\ FieldFilled(r.llm_behavioral_keywords))

\* the records of a table that the rules excluded
RuleExcluded(table) == {i \in 1..Len(table) : RuleVerdict(table[i]) = "exclude"}

\* C16: wherever the rescue rate is computed (the pipeline summary and the comparison
\* report) it is the number of rescued records divided by the number of rule-excluded
\* records, and it is 0, with no error raised, when no record was rule-excluded.
C16_RescueRate ==
    call_pc \in {"summary", "report"} =>
        LET excluded == Cardinality(RuleExcluded(call_arg))
            scale == IF call_pc = "summary" THEN 10000 ELSE 1000
        IN /\ call_ret.error = ""
           /\ call_ret.rescue_rate =
                  IF excluded = 0 THEN 0
                  ELSE round_div(llm_rescued(call_arg) * scale, excluded)

\* a title or abstract cell that is empty or missing
IsBlank(v) == v \in {"", NaN, Absent}

\* what the matcher returns for each kind of row (evaluated once)
Evaluated ==
    [p \in RuleStageKinds |->
        evaluate_single_paper(IF IsBlank(p.Title) THEN "" ELSE p.Title,
                              IF IsBlank(p.Abstract) THEN "" ELSE p.Abstract)]

\* C17: process_dataframe records a row whose Title and Abstract are both empty or
\* missing as exclude with three empty keyword fields without calling the matcher,
\* and goes on with the next row; every other row is evaluated by the matcher and
\* carries the matcher's keywords and verdict; the loop ends with one result per row.
C17_BlankRowsSkipMatcher ==
    call_pc \in {"rule_loop", "rule_done"} =>
        /\ \A i \in 1..Len(call_ret.results) :
               LET row == call_arg[i]
                   out == call_ret.results[i]
               IN IF IsBlank(row.Title) /\ IsBlank(row.Abstract)
                  THEN /\ i \notin call_ret.calls
                       /\ out.result = "exclude"
                       /\ out.depression_keywords = "" /\ out.mobile_keywords = ""
                       /\ out.behavioral_keywords = ""
                  ELSE /\ i \in call_ret.calls
                       /\ out.result = Evaluated[row].result
                       /\ out.depression_keywords = Evaluated[row].depression_keywords
                       /\ out.mobile_keywords = Evaluated[row].mobile_keywords
                       /\ out.behavioral_keywords = Evaluated[row].behavioral_keywords
        /\ call_pc = "rule_done" => Len(call_ret.results) = Len(call_arg)

\* a table whose first row has neither title nor abstract and whose second row has
\* only a title, both processed
C17_Witness ==
    /\ call_pc = "rule_done" /\ Len(call_arg) = 2
    /\ call_arg[1].Title = NaN /\ call_arg[1].Abstract = NaN
    /\ call_arg[2].Title = "Depression app" /\ call_arg[2].Abstract = NaN
    /\ call_ret.results[1].result = "exclude" /\ call_ret.calls = {2}
    /\ call_ret.results[2].depression_keywords = "depression"

\* how many rows of a table carry a DOI
RowsWithDOI(table, doi) == Cardinality({i \in 1..Len(table) : table[i].DOI = doi})

\* C18: no record is dropped or duplicated: the rule-stage table has one row per row
\* of the source table, and the table the LLM stage returns, with or without a resume
\* from a checkpoint, has exactly one row for every row of the rule-stage table.
C18_OneRowPerRecord ==
    pc = "returned" =>
        /\ Len(input_df) = Len(hist.source)
        /\ Len(returned) = Len(input_df)
        /\ \A p \in PaperKinds :
               /\ RowsWithDOI(input_df, p.DOI) = RowsWithDOI(hist.source, p.DOI)
               /\ RowsWithDOI(returned, p.DOI) = RowsWithDOI(input_df, p.DOI)

\* t holds k, in any case, with no word character right before it or right after it
BoundedOccurrence(t, k) ==
    \E i \in 1..(Len(t) - Len(k) + 1) :
        /\ lower(SubSeq(t, i, i + Len(k) - 1)) = lower(k)
        /\ (i = 1 \/ ~IsWordChar(Char(t, i - 1)))
        /\ (i + Len(k) > Len(t) \/ ~IsWordChar(Char(t, i + Len(k))))

\* k occurs in t: a single word bounded, a phrase anywhere, both in any case
Occurs(t, k) ==
    IF NumTokens(k) = 1 THEN BoundedOccurrence(t, k) ELSE Contains(lower(t), lower(k))

\* C19: find_keywords_in_text reports a single-word keyword only if the text holds
\* an occurrence of it, in any case, bounded on both sides by a non-word character
\* or an edge of the text (app is not found in apply); when no keyword of the list
\* occurs in the text, both returned lists are empty.
C19_SingleWordsAreBounded ==
    call_pc = "found" =>
        LET t == call_arg.text
            ks == call_arg.keywords
        IN /\ \A j \in 1..Len(call_ret.kw) :
                  /\ \E n \in 1..Len(ks) : ks[n] = call_ret.kw[j]
                  /\ NumTokens(call_ret.kw[j]) = 1 => BoundedOccurrence(t, call_ret.kw[j])
           /\ (\A n \in 1..Len(ks) : ~Occurs(t, ks[n])) =>
                  (call_ret.kw = <<>> /\ call_ret.sent = <<>>)

\* app is reported for a text that holds it between a hyphen and the end
C19_Witness ==
    /\ call_pc = "found" /\ call_arg.keywords = <<"mobile", "app">>
    /\ call_arg.text = "A mobile-app" /\ call_ret.kw = <<"mobile", "app">>

\* the entries of a behavioral list that the wildcard patterns reported
WildcardEntries(list) ==
    {list[j] : j \in 1..Len(list)} \ {behavioral_base_keywords[n] : n \in 1..Len(behavioral_base_keywords)}

\* C20: every wildcard match find_behavioral_keywords_in_text reports is the literal
\* substring of the text that matched, in the case the text has it.
C20_WildcardKeepsCase ==
    ev_pc = "done" =>
        \A e \in WildcardEntries(ev_found.behavioral) :
            Contains(full_text_of(ev_title, ev_abstract), e)

\* the two stems of each template and whether the first one carries a star
TemplateStems ==
    <<[a |-> "activity", astar |-> FALSE, b |-> "schedul"],
      [a |-> "behavio", astar |-> TRUE, b |-> "interven"],
      [a |-> "behavio", astar |-> TRUE, b |-> "therap"]>>

\* the text holds, from a word start on, the first stem, word characters where the
\* template has a star, one or more whitespace characters, and the second stem
StemsOccur(text, st) ==
    \E i \in 1..Len(text) :
        /\ ~WordAt(text, i - 1)
        /\ i + Len(st.a) - 1 <= Len(text)
        /\ lower(SubSeq(text, i, i + Len(st.a) - 1)) = st.a
        /\ LET j == i + Len(st.a) + (IF st.astar THEN RunLen(text, i + Len(st.a), FALSE) ELSE 0)
               m == j + RunLen(text, j, TRUE)
           IN /\ m > j
              /\ m + Len(st.b) - 1 <= Len(text)
              /\ lower(SubSeq(text, m, m + Len(st.b) - 1)) = st.b

\* C21: each behavioral wildcard template matches, in the rule matcher and in the
\* highlighter alike, whenever its two stems are separated by one or more whitespace
\* characters of any kind and each stem is followed by zero or more word characters;
\* both accept exactly the same occurrences.
C21_WildcardsAgree ==
    call_pc = "matched" =>
        /\ call_ret.rule = call_ret.highlight
        /\ StemsOccur(call_arg.text, TemplateStems[call_arg.n]) =>
               (call_ret.rule # <<>> /\ call_ret.highlight # <<>>)

\* the members of a list
ListItems(list) == {list[i] : i \in 1..Len(list)}

\* the keywords reported for one category from the joined text that are reported
\* neither from the title alone nor from the abstract alone
SpanningKeywords(category) ==
    ListItems(ev_found[category])
        \ (ListItems(FoundIn(ev_title)[category]) \cup ListItems(FoundIn(ev_abstract)[category]))

\* C22: evaluate_single_paper matches on the title and the abstract joined by one
\* space, and a keyword whose first part ends the title and whose rest starts the
\* abstract is not detected.
C22_SpanningKeywordNotDetected ==
    ev_pc = "done" =>
        /\ ev_found = FoundIn(ev_title \o " " \o ev_abstract)
        /\ \A category \in {"depression", "mobile", "behavioral"} :
               SpanningKeywords(category) = {}

\* the text fields of the rows written to either file, each with the field it was read from
WrittenFields ==
    {[read |-> call_arg.meta_data[i][key], written |-> call_ret.complete[i].text[key]] :
        i \in 1..Len(call_ret.complete), key \in {"Title", "Abstract"}}
    \cup
    {[read |-> call_arg.matches.no_match[i].row[key], written |-> call_ret.failed[i].text[key]] :
        i \in 1..Len(call_ret.failed), key \in {"Title", "Abstract"}}

\* the written field carries no newline and no carriage return
Flattened(field) ==
    \A i \in 1..Len(field.written) :
        /\ SubSeq(field.written, i, i) \notin {"\n", "\r"}
        /\ i <= Len(field.read) =>
              SubSeq(field.written, i, i) =
                  (IF SubSeq(field.read, i, i) \in {"\n", "\r"} THEN " "
                   ELSE SubSeq(field.read, i, i))

\* a field of more than 10,000 characters is written as 5,000 characters and the marker
Truncated(field) ==
    Len(field.read) > LongFieldLimit =>
        /\ Len(field.written) = KeptPrefix + Len(TruncationMarker)
        /\ SubSeq(field.written, KeptPrefix + 1, Len(field.written)) = TruncationMarker

\* C26: save_results writes every text field longer than 10,000 characters truncated
\* to its first 5,000 characters followed by the truncation marker, and writes every
\* text field with its newlines and carriage returns replaced by spaces.
C26_LongFieldsTruncatedAndFlattened ==
    call_pc = "saved" =>
        \A field \in WrittenFields : Flattened(field) /\ Truncated(field)

\* position i of the text lies inside a marker, from its "<" to its ">"
InMarker(text, i) ==
    \/ SubSeq(text, i, i) = ">"
    \/ \E j \in 1..i : /\ SubSeq(text, j, j) = "<"
                       /\ \A k \in j..i : SubSeq(text, k, k) # ">"

\* the text with every marker removed
RECURSIVE StripRange(_, _, _)
StripRange(text, lo, hi) ==
    IF lo > hi THEN ""
    ELSE IF lo = hi THEN (IF InMarker(text, lo) THEN "" ELSE SubSeq(text, lo, lo))
    ELSE StripRange(text, lo, (lo + hi) \div 2) \o StripRange(text, (lo + hi) \div 2 + 1, hi)

StripMarkers(text) == StripRange(text, 1, Len(text))

\* C23: the output of highlight_all_keywords with all inserted markers stripped equals
\* the input text exactly, and each wrapped substring is the substring of the input at
\* its position.
C23_StrippedOutputIsInput ==
    call_pc = "highlighted" =>
        /\ StripMarkers(call_ret.highlighted_text) = call_arg.text
        /\ \A i \in 1..Len(call_ret.filtered_matches) :
               call_ret.filtered_matches[i].text =
                   SubSeq(call_arg.text, call_ret.filtered_matches[i].start + 1,
                          call_ret.filtered_matches[i].end)

\* two spans of different kinds were wrapped, one of them with an upper-case letter
C23_Witness ==
    /\ call_pc = "highlighted"
    /\ Len(call_ret.filtered_matches) >= 3
    /\ \E i \in 1..Len(call_ret.filtered_matches) :
          call_ret.filtered_matches[i].text = "Behavioral Activation"
    /\ call_ret.highlighted_text # call_arg.text

\* two spans share an index of the text
SpansOverlap(a, b) == a.start < b.end /\ b.start < a.end

\* C24: no two spans applied to the output overlap in the coordinates of the input text.
C24_AppliedSpansDisjoint ==
    call_pc = "highlighted" =>
        \A i, j \in 1..Len(call_ret.filtered_matches) :
            i # j => ~SpansOverlap(call_ret.filtered_matches[i], call_ret.filtered_matches[j])

\* overlapping candidates were produced and more than one span was applied
C24_Witness ==
    /\ call_pc = "highlighted"
    /\ Len(call_ret.filtered_matches) >= 2
    /\ \E i, j \in 1..Len(call_ret.all_matches) :
          i # j /\ SpansOverlap(call_ret.all_matches[i], call_ret.all_matches[j])

\* C25: when two candidate spans overlap, the longer one is kept: no kept span overlaps
\* a longer candidate.
C25_LongestMatchWins ==
    call_pc = "highlighted" =>
        \A i \in 1..Len(call_ret.filtered_matches), j \in 1..Len(call_ret.all_matches) :
            SpansOverlap(call_ret.filtered_matches[i], call_ret.all_matches[j]) =>
                call_ret.all_matches[j].end - call_ret.all_matches[j].start
                    <= call_ret.filtered_matches[i].end - call_ret.filtered_matches[i].start

\* the place of a match in a list of matches
PlaceIn(matches, m) == CHOOSE i \in 1..Len(matches) : matches[i] = m

Kept(m) == m \in ListItems(call_ret.filtered_matches)

\* the candidates are processed in descending order of start, equal starts in the order
\* of production; the first one processed is kept; a later one is kept exactly when it
\* shares no index with a span kept before it; every dropped span overlaps a kept span
GreedyByDescendingStart ==
    LET all == call_ret.all_matches
    IN /\ ListItems(all) = ListItems(call_ret.produced)
       /\ Len(all) = Len(call_ret.produced)
       /\ \A i, j \in 1..Len(all) :
              i < j => /\ all[i].start >= all[j].start
                       /\ all[i].start = all[j].start =>
                              PlaceIn(call_ret.produced, all[i]) < PlaceIn(call_ret.produced, all[j])
       /\ all # <<>> => Kept(all[1])
       /\ \A i \in 1..Len(all) :
              Kept(all[i]) <=> ~\E j \in 1..(i - 1) : Kept(all[j]) /\ SpansOverlap(all[i], all[j])
       /\ \A i \in 1..Len(all) :
              ~Kept(all[i]) => \E j \in 1..Len(all) : Kept(all[j]) /\ SpansOverlap(all[i], all[j])
       /\ \A i, j \in 1..Len(call_ret.filtered_matches) :
              i < j => PlaceIn(all, call_ret.filtered_matches[i])
                           < PlaceIn(all, call_ret.filtered_matches[j])

\* pairs of candidates with the same start, the first produced before the second
EqualStartPairs ==
    {pair \in ListItems(call_ret.produced) \X ListItems(call_ret.produced) :
        /\ pair[1].start = pair[2].start
        /\ PlaceIn(call_ret.produced, pair[1]) < PlaceIn(call_ret.produced, pair[2])}

LoadRefused ==
    /\ last_op'.op = "load_error"
    /\ rv_pc' = rv_pc /\ df' = df /\ file_name' = file_name
    /\ current_idx' = current_idx /\ selected_keywords' = selected_keywords

\* a load step that installs the table
LoadAccepted(file) ==
    /\ last_op'.op = "load" /\ rv_pc' = "loaded"
    /\ Len(df') = file.rows /\ file_name' = file.name /\ current_idx' = 0

\* C27 as stated: a table without any one of Title, Abstract, the three keyword columns
\* and result is refused: an error is reported, no table is produced, and the table,
\* the file name, the cursor and the keyword selections of the session stay as they were.
C27_MissingColumnRefused ==
    [][\A file \in OfferedTables :
          (LoadTable(file) /\ required_columns \ file.columns # {}) => LoadRefused]_vars

\* the columns a table has once a hybrid file (one with rule_result, llm_result and
\* final_result) was given the keyword columns and the result column it lacks
ColumnsAfterMapping(file) ==
    file.columns \cup
        (IF {"rule_result", "llm_result", "final_result"} \subseteq file.columns
         THEN {"depression_keywords", "mobile_keywords", "behavioral_keywords", "result"}
         ELSE {})

\* C27: a table that lacks Title or Abstract, or that is no hybrid file and lacks a
\* keyword column or result, is refused: an error is reported and the table, the file
\* name, the cursor and the keyword selections of the session stay as they were; a
\* hybrid file with Title and Abstract is loaded.
C27_MissingColumnAfterMappingRefused ==
    [][\A file \in OfferedTables :
          LoadTable(file) =>
              IF {"Title", "Abstract", "depression_keywords", "mobile_keywords",
                  "behavioral_keywords", "result"} \ ColumnsAfterMapping(file) # {}
              THEN LoadRefused
              ELSE LoadAccepted(file)]_vars

\* a table was refused in a session that had a table, a moved cursor and a changed selection
C27_Witness ==
    /\ last_op.op = "load_error"
    /\ rv_pc = "loaded" /\ current_idx > 0
    /\ selected_keywords.mobile = {}
    /\ file_name = "hybrid_a.csv"

\* C29: from a freshly loaded table, after any sequence of apply-decision, force-include,
\* force-exclude and reset, every record's review_status is one of not reviewed,
\* completed, include, exclude, and it is not reviewed exactly when human_result is empty.
C29_StatusFollowsHumanResult ==
    \A i \in 1..Len(df) :
        /\ df[i].review_status \in {"incomplete", StatusDone, "include", "exclude"}
        /\ df[i].review_status = "incomplete" <=> df[i].human_result = ""

\* a record reset after a decision, next to a record with an applied decision
C29_Witness ==
    /\ last_op.op = "reset"
    /\ Len(df) = 2
    /\ df[last_op.idx + 1].review_status = "incomplete"
    /\ \E i \in 1..Len(df) : df[i].review_status = StatusDone

\* C30: after any sequence of load, select, force-include, force-exclude and reset on a
\* non-empty table the cursor is a row position of the table; a forced decision on the
\* last record is recorded and leaves the cursor on that record.
C30_CursorInRange ==
    (rv_pc = "loaded" /\ Len(df) > 0) =>
        /\ 0 <= current_idx /\ current_idx < Len(df)
        /\ (last_op.op \in {"include", "exclude"} /\ last_op.idx = Len(df) - 1) =>
               /\ current_idx = Len(df) - 1
               /\ df[Len(df)].human_result = last_op.op

\* a decision was forced on the last record of a table of several records
C30_Witness ==
    /\ rv_pc = "loaded" /\ Len(df) > 1
    /\ last_op.op \in {"include", "exclude"} /\ last_op.idx = Len(df) - 1
    /\ df[Len(df)].human_result = "exclude"
====
